---- MODULE Spec2Model ----
(***************************************************************************)
(* A model of duckagent's decision-graph execution: the local orchestrator *)
(* (orchestrator.py, execute), the graph adapter (langgraph_adapter.py,    *)
(* build_runtime_graph / run_decision_graph / send_to_langsmith) and the   *)
(* redaction helper (_redact).                                             *)
(*                                                                         *)
(* Python values are modelled as tagged records [t, v]:                    *)
(*   str  - v is the text,          int  - v is the number,                *)
(*   bool - v is TRUE/FALSE,        none - Python's None,                  *)
(*   dict - v is a function from key strings to values,                    *)
(*   list - v is a sequence of values,                                     *)
(*   obj  - an opaque runtime object (connection, dataframe, LLM client).  *)
(***************************************************************************)
EXTENDS Integers, Sequences, FiniteSets, TLC

VARIABLES
    dec,            \* the Decision handed to the entrypoint
    ctx,            \* the caller's context mapping
    env,            \* the optional packages and credentials of the process
    path,           \* the entrypoint called: "orchestrator" (execute) or "adapter"
    pc,             \* where the call stands
    idx,            \* 1-based index of the next step / node
    run_state,      \* execute: the run state (key -> value)
    run_results,    \* execute: results (step name -> output)
    traces,         \* run_decision_graph: traces
    local_results,  \* run_decision_graph: local_results (node id -> {status, output})
    stopped,        \* run_decision_graph: the local loop took its break
    rt_err,         \* run_decision_graph: a traced callable raised into the runtime
    failed,         \* run_decision_graph: the remote strategies that raised so far
    calls,          \* history: one record per loop iteration / node call, in order
    ret,            \* the value returned (or the message of the exception raised)
    submitted,      \* the payloads handed to the remote tracing client
    robj,           \* _redact: the argument under construction
    rout,           \* _redact: the value returned for robj (None before the call)
    rdone,          \* _redact: TRUE once _redact(robj) has been called
    pl_intent,      \* plan_for_intent: the intent argument
    pl_ctx,         \* plan_for_intent: the context argument
    pl_llm,         \* Planner.llm: the configured LLM client, or None
    pl_pc,          \* plan_for_intent: where the call stands
    pl_reply,       \* plan_for_intent: the outcome of llm.generate (None before it)
    pl_calls,       \* the number of llm.generate calls made so far
    pl_ret,         \* plan_for_intent: the Decision returned (None before)
    rt_prompt,      \* detect_intent: the prompt argument, a sequence of characters
    rt_mode,        \* detect_intent: the user_mode argument
    rt_ret,         \* detect_intent: the mapping returned (None before the call)
    mp_agents,      \* the steps of the Decision a caller of the mapping helpers builds
    mp_intent,      \* the intent of that Decision
    mp_payload,     \* the outcome of build_run_payload on it (None before the call)
    mp_graph,       \* the outcomes of the build_runtime_graph calls on it, in order
    agent,          \* Agent: the fields conn, llm, use_langgraph and table_name
    ag_prompt,      \* Agent.run: the prompt argument
    ag_mode,        \* Agent.run: the mode argument
    ag_data,        \* Agent.run: the data argument
    ag_pc,          \* Agent.run: where the call stands
    ag_decision,    \* Agent.run: the local variable decision (None before the router)
    ag_via,         \* Agent.run: what runs the Decision: "adapter", "local", "fallback"
    ag_ret          \* Agent.run: the result returned (None before)

runVars == <<dec, ctx, env, path, pc, idx, run_state, run_results, traces, local_results,
             stopped, rt_err, failed, calls, ret, submitted>>
redactVars == <<robj, rout, rdone>>
plannerVars == <<pl_intent, pl_ctx, pl_llm, pl_pc, pl_reply, pl_calls, pl_ret>>
routerVars == <<rt_prompt, rt_mode, rt_ret>>
mappingVars == <<mp_agents, mp_intent, mp_payload, mp_graph>>
agentVars == <<agent, ag_prompt, ag_mode, ag_data, ag_pc, ag_decision, ag_via, ag_ret>>
frontVars == <<plannerVars, routerVars, mappingVars, agentVars>>
vars == <<runVars, redactVars, frontVars>>

-----------------------------------------------------------------------------
(* Bounds *)

MaxDepth == 2       \* nesting depth of the values handed to _redact
MaxSteps == 3       \* steps of a Decision
MaxWords == 3       \* words of a prompt handed to detect_intent

-----------------------------------------------------------------------------
(* Python values *)

Str(s) == [t |-> "str", v |-> s]
Num(n) == [t |-> "int", v |-> n]
Bool(b) == [t |-> "bool", v |-> b]
None == [t |-> "none", v |-> "None"]
Dict(f) == [t |-> "dict", v |-> f]
List(q) == [t |-> "list", v |-> q]
Obj(n) == [t |-> "obj", v |-> n]

EmptyDict == Dict(<<>>)
EmptyList == List(<<>>)

\* The element of a one-element set.  The({e(x) : x \in {a}}) is e(a) with a
\* evaluated once, however often e uses x.
The(S) == CHOOSE r \in S : TRUE

\* dict.get(k, default) and d[k] = val on a dict's key -> value function
Get(f, k, default) == IF k \in DOMAIN f THEN f[k] ELSE default
Put(f, k, val) == [x \in (DOMAIN f) \cup {k} |-> IF x = k THEN val ELSE f[x]]

-----------------------------------------------------------------------------
(* The characters of every string of the model's vocabulary.  TLC cannot   *)
(* index a string, so str.lower(), substring tests and re.search work on   *)
(* Chars(s).                                                               *)

\* CHARS-BEGIN
CharTable ==
    (
     (
      (
       (
        (
         (
          (
              "Planner" :> <<"P", "l", "a", "n", "n", "e", "r">>
           @@ "SQLGenerator" :> <<"S", "Q", "L", "G", "e", "n", "e", "r", "a", "t", "o", "r">>
           @@ "Validator" :> <<"V", "a", "l", "i", "d", "a", "t", "o", "r">>
          ) @@ (
              "SQLRunner" :> <<"S", "Q", "L", "R", "u", "n", "n", "e", "r">>
           @@ "AnalysisAgent" :> <<"A", "n", "a", "l", "y", "s", "i", "s", "A", "g", "e", "n", "t">>
           @@ "Summarizer" :> <<"S", "u", "m", "m", "a", "r", "i", "z", "e", "r">>
          )
         ) @@ (
          (
              "A" :> <<"A">>
           @@ "B" :> <<"B">>
           @@ "a" :> <<"a">>
          ) @@ (
              "api_key" :> <<"a", "p", "i", "_", "k", "e", "y">>
           @@ "API_KEY" :> <<"A", "P", "I", "_", "K", "E", "Y">>
           @@ "nested" :> <<"n", "e", "s", "t", "e", "d">>
          )
         )
        ) @@ (
         (
          (
              "password" :> <<"p", "a", "s", "s", "w", "o", "r", "d">>
           @@ "Token" :> <<"T", "o", "k", "e", "n">>
           @@ "monkey" :> <<"m", "o", "n", "k", "e", "y">>
          ) @@ (
              "name" :> <<"n", "a", "m", "e">>
           @@ "items" :> <<"i", "t", "e", "m", "s">>
           @@ "key" :> <<"k", "e", "y">>
          )
         ) @@ (
          (
              "secret" :> <<"s", "e", "c", "r", "e", "t">>
           @@ "token" :> <<"t", "o", "k", "e", "n">>
           @@ "api" :> <<"a", "p", "i">>
          ) @@ (
              "state" :> <<"s", "t", "a", "t", "e">>
           @@ "params" :> <<"p", "a", "r", "a", "m", "s">>
          )
         )
        )
       ) @@ (
        (
         (
          (
              "conn" :> <<"c", "o", "n", "n">>
           @@ "prompt" :> <<"p", "r", "o", "m", "p", "t">>
           @@ "llm" :> <<"l", "l", "m">>
          ) @@ (
              "full_df" :> <<"f", "u", "l", "l", "_", "d", "f">>
           @@ "decision" :> <<"d", "e", "c", "i", "s", "i", "o", "n">>
           @@ "agents" :> <<"a", "g", "e", "n", "t", "s">>
          )
         ) @@ (
          (
              "intent" :> <<"i", "n", "t", "e", "n", "t">>
           @@ "results" :> <<"r", "e", "s", "u", "l", "t", "s">>
           @@ "summary" :> <<"s", "u", "m", "m", "a", "r", "y">>
          ) @@ (
              "summary_text" :> <<"s", "u", "m", "m", "a", "r", "y", "_", "t", "e", "x", "t">>
           @@ "sql" :> <<"s", "q", "l">>
          )
         )
        ) @@ (
         (
          (
              "plan" :> <<"p", "l", "a", "n">>
           @@ "rows_preview" :> <<"r", "o", "w", "s", "_", "p", "r", "e", "v", "i", "e", "w">>
           @@ "error" :> <<"e", "r", "r", "o", "r">>
          ) @@ (
              "valid" :> <<"v", "a", "l", "i", "d">>
           @@ "issues" :> <<"i", "s", "s", "u", "e", "s">>
           @@ "llm_used" :> <<"l", "l", "m", "_", "u", "s", "e", "d">>
          )
         ) @@ (
          (
              "analysis_code" :> <<"a", "n", "a", "l", "y", "s", "i", "s", "_", "c", "o", "d", "e">>
           @@ "artifacts" :> <<"a", "r", "t", "i", "f", "a", "c", "t", "s">>
           @@ "metrics" :> <<"m", "e", "t", "r", "i", "c", "s">>
          ) @@ (
              "describe" :> <<"d", "e", "s", "c", "r", "i", "b", "e">>
           @@ "note" :> <<"n", "o", "t", "e">>
          )
         )
        )
       )
      ) @@ (
       (
        (
         (
          (
              "n_rows" :> <<"n", "_", "r", "o", "w", "s">>
           @@ "col1" :> <<"c", "o", "l", "1">>
           @@ "col2" :> <<"c", "o", "l", "2">>
          ) @@ (
              "id" :> <<"i", "d">>
           @@ "b" :> <<"b">>
           @@ "max_rows" :> <<"m", "a", "x", "_", "r", "o", "w", "s">>
          )
         ) @@ (
          (
              "sample_only" :> <<"s", "a", "m", "p", "l", "e", "_", "o", "n", "l", "y">>
           @@ "last_sql" :> <<"l", "a", "s", "t", "_", "s", "q", "l">>
           @@ "plan_text" :> <<"p", "l", "a", "n", "_", "t", "e", "x", "t">>
          ) @@ (
              "full_df_table_name" :> <<"f", "u", "l", "l", "_", "d", "f", "_", "t", "a", "b", "l", "e", "_", "n", "a", "m", "e">>
           @@ "status" :> <<"s", "t", "a", "t", "u", "s">>
           @@ "output" :> <<"o", "u", "t", "p", "u", "t">>
          )
         )
        ) @@ (
         (
          (
              "input" :> <<"i", "n", "p", "u", "t">>
           @@ "meta" :> <<"m", "e", "t", "a">>
           @@ "nodes" :> <<"n", "o", "d", "e", "s">>
          ) @@ (
              "edges" :> <<"e", "d", "g", "e", "s">>
           @@ "metadata" :> <<"m", "e", "t", "a", "d", "a", "t", "a">>
           @@ "from" :> <<"f", "r", "o", "m">>
          )
         ) @@ (
          (
              "to" :> <<"t", "o">>
           @@ "node_traces" :> <<"n", "o", "d", "e", "_", "t", "r", "a", "c", "e", "s">>
           @@ "execution" :> <<"e", "x", "e", "c", "u", "t", "i", "o", "n">>
          ) @@ (
              "langgraph_result" :> <<"l", "a", "n", "g", "g", "r", "a", "p", "h", "_", "r", "e", "s", "u", "l", "t">>
           @@ "project" :> <<"p", "r", "o", "j", "e", "c", "t">>
          )
         )
        )
       ) @@ (
        (
         (
          (
              "steps" :> <<"s", "t", "e", "p", "s">>
           @@ "graph" :> <<"g", "r", "a", "p", "h">>
           @@ "run_type" :> <<"r", "u", "n", "_", "t", "y", "p", "e">>
          ) @@ (
              "hints" :> <<"h", "i", "n", "t", "s">>
           @@ "reason" :> <<"r", "e", "a", "s", "o", "n">>
           @@ "confidence" :> <<"c", "o", "n", "f", "i", "d", "e", "n", "c", "e">>
          )
         ) @@ (
          (
              "normal" :> <<"n", "o", "r", "m", "a", "l">>
           @@ "hunter2" :> <<"h", "u", "n", "t", "e", "r", "2">>
           @@ "sk-FOO12345" :> <<"s", "k", "-", "F", "O", "O", "1", "2", "3", "4", "5">>
          ) @@ (
              "sk-TESTSECRET" :> <<"s", "k", "-", "T", "E", "S", "T", "S", "E", "C", "R", "E", "T">>
           @@ "sk-short" :> <<"s", "k", "-", "s", "h", "o", "r", "t">>
          )
         )
        ) @@ (
         (
          (
              "see sk-ABCDEFGH1 here" :> <<"s", "e", "e", " ", "s", "k", "-", "A", "B", "C", "D", "E", "F", "G", "H", "1", " ", "h", "e", "r", "e">>
           @@ "sk-abcd efgh" :> <<"s", "k", "-", "a", "b", "c", "d", " ", "e", "f", "g", "h">>
           @@ "<REDACTED>" :> <<"<", "R", "E", "D", "A", "C", "T", "E", "D", ">">>
          ) @@ (
              "planner-produced-plan" :> <<"p", "l", "a", "n", "n", "e", "r", "-", "p", "r", "o", "d", "u", "c", "e", "d", "-", "p", "l", "a", "n">>
           @@ "(no plan)" :> <<"(", "n", "o", " ", "p", "l", "a", "n", ")">>
           @@ "(no sql)" :> <<"(", "n", "o", " ", "s", "q", "l", ")">>
          )
         ) @@ (
          (
              "example" :> <<"e", "x", "a", "m", "p", "l", "e">>
           @@ "test" :> <<"t", "e", "s", "t">>
           @@ "unknown agent" :> <<"u", "n", "k", "n", "o", "w", "n", " ", "a", "g", "e", "n", "t">>
          ) @@ (
              "limit" :> <<"l", "i", "m", "i", "t">>
           @@ "t1" :> <<"t", "1">>
          )
         )
        )
       )
      )
     ) @@ (
      (
       (
        (
         (
          (
              "sample_table" :> <<"s", "a", "m", "p", "l", "e", "_", "t", "a", "b", "l", "e">>
           @@ "FROM t1" :> <<"F", "R", "O", "M", " ", "t", "1">>
           @@ "SELECT id FROM t1;" :> <<"S", "E", "L", "E", "C", "T", " ", "i", "d", " ", "F", "R", "O", "M", " ", "t", "1", ";">>
          ) @@ (
              "SELECT id FROM t1" :> <<"S", "E", "L", "E", "C", "T", " ", "i", "d", " ", "F", "R", "O", "M", " ", "t", "1">>
           @@ "LLM summary" :> <<"L", "L", "M", " ", "s", "u", "m", "m", "a", "r", "y">>
           @@ "llm unavailable" :> <<"l", "l", "m", " ", "u", "n", "a", "v", "a", "i", "l", "a", "b", "l", "e">>
          )
         ) @@ (
          (
              "Catalog Error: Table does not exist" :> <<"C", "a", "t", "a", "l", "o", "g", " ", "E", "r", "r", "o", "r", ":", " ", "T", "a", "b", "l", "e", " ", "d", "o", "e", "s", " ", "n", "o", "t", " ", "e", "x", "i", "s", "t">>
           @@ "Cannot describe a DataFrame without columns" :> <<"C", "a", "n", "n", "o", "t", " ", "d", "e", "s", "c", "r", "i", "b", "e", " ", "a", " ", "D", "a", "t", "a", "F", "r", "a", "m", "e", " ", "w", "i", "t", "h", "o", "u", "t", " ", "c", "o", "l", "u", "m", "n", "s">>
           @@ "'NoneType' object has no attribute 'get'" :> <<"'", "N", "o", "n", "e", "T", "y", "p", "e", "'", " ", "o", "b", "j", "e", "c", "t", " ", "h", "a", "s", " ", "n", "o", " ", "a", "t", "t", "r", "i", "b", "u", "t", "e", " ", "'", "g", "e", "t", "'">>
          ) @@ (
              "no dataframe provided to AnalysisAgent" :> <<"n", "o", " ", "d", "a", "t", "a", "f", "r", "a", "m", "e", " ", "p", "r", "o", "v", "i", "d", "e", "d", " ", "t", "o", " ", "A", "n", "a", "l", "y", "s", "i", "s", "A", "g", "e", "n", "t">>
           @@ "No data available to summarize. Provide a DataFrame via Agent.run(..., data=...) or run a SQL-producing plan so results can be summarized." :> <<"N", "o", " ", "d", "a", "t", "a", " ", "a", "v", "a", "i", "l", "a", "b", "l", "e", " ", "t", "o", " ", "s", "u", "m", "m", "a", "r", "i", "z", "e", ".", " ", "P", "r", "o", "v", "i", "d", "e", " ", "a", " ", "D", "a", "t", "a", "F", "r", "a", "m", "e", " ", "v", "i", "a", " ", "A", "g", "e", "n", "t", ".", "r", "u", "n", "(", ".", ".", ".", ",", " ", "d", "a", "t", "a", "=", ".", ".", ".", ")", " ", "o", "r", " ", "r", "u", "n", " ", "a", " ", "S", "Q", "L", "-", "p", "r", "o", "d", "u", "c", "i", "n", "g", " ", "p", "l", "a", "n", " ", "s", "o", " ", "r", "e", "s", "u", "l", "t", "s", " ", "c", "a", "n", " ", "b", "e", " ", "s", "u", "m", "m", "a", "r", "i", "z", "e", "d", ".">>
           @@ "success" :> <<"s", "u", "c", "c", "e", "s", "s">>
          )
         )
        ) @@ (
         (
          (
              "completed" :> <<"c", "o", "m", "p", "l", "e", "t", "e", "d">>
           @@ "duckagent" :> <<"d", "u", "c", "k", "a", "g", "e", "n", "t">>
           @@ "duckagent_run" :> <<"d", "u", "c", "k", "a", "g", "e", "n", "t", "_", "r", "u", "n">>
          ) @@ (
              "chain" :> <<"c", "h", "a", "i", "n">>
           @@ "test_run" :> <<"t", "e", "s", "t", "_", "r", "u", "n">>
           @@ "analyze" :> <<"a", "n", "a", "l", "y", "z", "e">>
          )
         ) @@ (
          (
              "summarize" :> <<"s", "u", "m", "m", "a", "r", "i", "z", "e">>
           @@ "duckagent_decision" :> <<"d", "u", "c", "k", "a", "g", "e", "n", "t", "_", "d", "e", "c", "i", "s", "i", "o", "n">>
           @@ "result" :> <<"r", "e", "s", "u", "l", "t">>
          ) @@ (
              "None" :> <<"N", "o", "n", "e">>
           @@ "run_id" :> <<"r", "u", "n", "_", "i", "d">>
          )
         )
        )
       ) @@ (
        (
         (
          (
              "run_url" :> <<"r", "u", "n", "_", "u", "r", "l">>
           @@ "agent_0" :> <<"a", "g", "e", "n", "t", "_", "0">>
           @@ "agent_1" :> <<"a", "g", "e", "n", "t", "_", "1">>
          ) @@ (
              "agent_2" :> <<"a", "g", "e", "n", "t", "_", "2">>
           @@ "agent_3" :> <<"a", "g", "e", "n", "t", "_", "3">>
           @@ "agent_4" :> <<"a", "g", "e", "n", "t", "_", "4">>
          )
         ) @@ (
          (
              "outputs" :> <<"o", "u", "t", "p", "u", "t", "s">>
           @@ "provides" :> <<"p", "r", "o", "v", "i", "d", "e", "s">>
           @@ "depends_on" :> <<"d", "e", "p", "e", "n", "d", "s", "_", "o", "n">>
          ) @@ (
              "inputs" :> <<"i", "n", "p", "u", "t", "s">>
           @@ "LangSmith SDK (langsmith) is not installed" :> <<"L", "a", "n", "g", "S", "m", "i", "t", "h", " ", "S", "D", "K", " ", "(", "l", "a", "n", "g", "s", "m", "i", "t", "h", ")", " ", "i", "s", " ", "n", "o", "t", " ", "i", "n", "s", "t", "a", "l", "l", "e", "d">>
          )
         )
        ) @@ (
         (
          (
              "Missing LANGSMITH_API_KEY environment variable" :> <<"M", "i", "s", "s", "i", "n", "g", " ", "L", "A", "N", "G", "S", "M", "I", "T", "H", "_", "A", "P", "I", "_", "K", "E", "Y", " ", "e", "n", "v", "i", "r", "o", "n", "m", "e", "n", "t", " ", "v", "a", "r", "i", "a", "b", "l", "e">>
           @@ "langsmith client.runs.create failed" :> <<"l", "a", "n", "g", "s", "m", "i", "t", "h", " ", "c", "l", "i", "e", "n", "t", ".", "r", "u", "n", "s", ".", "c", "r", "e", "a", "t", "e", " ", "f", "a", "i", "l", "e", "d">>
           @@ "'str' object has no attribute 'get'" :> <<"'", "s", "t", "r", "'", " ", "o", "b", "j", "e", "c", "t", " ", "h", "a", "s", " ", "n", "o", " ", "a", "t", "t", "r", "i", "b", "u", "t", "e", " ", "'", "g", "e", "t", "'">>
          ) @@ (
              "raised" :> <<"r", "a", "i", "s", "e", "d">>
           @@ "['a', 'b']" :> <<"[", "'", "a", "'", ",", " ", "'", "b", "'", "]">>
           @@ "[]" :> <<"[", "]">>
          )
         ) @@ (
          (
              "['id']" :> <<"[", "'", "i", "d", "'", "]">>
           @@ "[{'a': 1, 'b': 10}, {'a': 2, 'b': 20}, {'a': 3, 'b': 30}]" :> <<"[", "{", "'", "a", "'", ":", " ", "1", ",", " ", "'", "b", "'", ":", " ", "1", "0", "}", ",", " ", "{", "'", "a", "'", ":", " ", "2", ",", " ", "'", "b", "'", ":", " ", "2", "0", "}", ",", " ", "{", "'", "a", "'", ":", " ", "3", ",", " ", "'", "b", "'", ":", " ", "3", "0", "}", "]">>
           @@ "[{'id': 1}]" :> <<"[", "{", "'", "i", "d", "'", ":", " ", "1", "}", "]">>
          ) @@ (
              "SELECT * FROM t1 LIMIT 5" :> <<"S", "E", "L", "E", "C", "T", " ", "*", " ", "F", "R", "O", "M", " ", "t", "1", " ", "L", "I", "M", "I", "T", " ", "5">>
           @@ "SELECT * FROM t1 LIMIT 10" :> <<"S", "E", "L", "E", "C", "T", " ", "*", " ", "F", "R", "O", "M", " ", "t", "1", " ", "L", "I", "M", "I", "T", " ", "1", "0">>
          )
         )
        )
       )
      ) @@ (
       (
        (
         (
          (
              "SELECT * FROM sample_table LIMIT 5" :> <<"S", "E", "L", "E", "C", "T", " ", "*", " ", "F", "R", "O", "M", " ", "s", "a", "m", "p", "l", "e", "_", "t", "a", "b", "l", "e", " ", "L", "I", "M", "I", "T", " ", "5">>
           @@ "SELECT * FROM sample_table LIMIT 10" :> <<"S", "E", "L", "E", "C", "T", " ", "*", " ", "F", "R", "O", "M", " ", "s", "a", "m", "p", "l", "e", "_", "t", "a", "b", "l", "e", " ", "L", "I", "M", "I", "T", " ", "1", "0">>
           @@ "SELECT * FROM full_df LIMIT 5" :> <<"S", "E", "L", "E", "C", "T", " ", "*", " ", "F", "R", "O", "M", " ", "f", "u", "l", "l", "_", "d", "f", " ", "L", "I", "M", "I", "T", " ", "5">>
          ) @@ (
              "SELECT * FROM full_df LIMIT 10" :> <<"S", "E", "L", "E", "C", "T", " ", "*", " ", "F", "R", "O", "M", " ", "f", "u", "l", "l", "_", "d", "f", " ", "L", "I", "M", "I", "T", " ", "1", "0">>
           @@ "SELECT id FROM t1 LIMIT 5" :> <<"S", "E", "L", "E", "C", "T", " ", "i", "d", " ", "F", "R", "O", "M", " ", "t", "1", " ", "L", "I", "M", "I", "T", " ", "5">>
           @@ "SELECT id FROM t1 LIMIT 10" :> <<"S", "E", "L", "E", "C", "T", " ", "i", "d", " ", "F", "R", "O", "M", " ", "t", "1", " ", "L", "I", "M", "I", "T", " ", "1", "0">>
          )
         ) @@ (
          (
              "DataFrame with 3 rows and 2 columns. Columns: ['a', 'b']. Sample rows: [{'a': 1, 'b': 10}, {'a': 2, 'b': 20}, {'a': 3, 'b': 30}]" :> <<"D", "a", "t", "a", "F", "r", "a", "m", "e", " ", "w", "i", "t", "h", " ", "3", " ", "r", "o", "w", "s", " ", "a", "n", "d", " ", "2", " ", "c", "o", "l", "u", "m", "n", "s", ".", " ", "C", "o", "l", "u", "m", "n", "s", ":", " ", "[", "'", "a", "'", ",", " ", "'", "b", "'", "]", ".", " ", "S", "a", "m", "p", "l", "e", " ", "r", "o", "w", "s", ":", " ", "[", "{", "'", "a", "'", ":", " ", "1", ",", " ", "'", "b", "'", ":", " ", "1", "0", "}", ",", " ", "{", "'", "a", "'", ":", " ", "2", ",", " ", "'", "b", "'", ":", " ", "2", "0", "}", ",", " ", "{", "'", "a", "'", ":", " ", "3", ",", " ", "'", "b", "'", ":", " ", "3", "0", "}", "]">>
           @@ "DataFrame with 0 rows and 0 columns. Columns: []. Sample rows: []" :> <<"D", "a", "t", "a", "F", "r", "a", "m", "e", " ", "w", "i", "t", "h", " ", "0", " ", "r", "o", "w", "s", " ", "a", "n", "d", " ", "0", " ", "c", "o", "l", "u", "m", "n", "s", ".", " ", "C", "o", "l", "u", "m", "n", "s", ":", " ", "[", "]", ".", " ", "S", "a", "m", "p", "l", "e", " ", "r", "o", "w", "s", ":", " ", "[", "]">>
           @@ "DataFrame with 1 rows and 1 columns. Columns: ['id']. Sample rows: [{'id': 1}]" :> <<"D", "a", "t", "a", "F", "r", "a", "m", "e", " ", "w", "i", "t", "h", " ", "1", " ", "r", "o", "w", "s", " ", "a", "n", "d", " ", "1", " ", "c", "o", "l", "u", "m", "n", "s", ".", " ", "C", "o", "l", "u", "m", "n", "s", ":", " ", "[", "'", "i", "d", "'", "]", ".", " ", "S", "a", "m", "p", "l", "e", " ", "r", "o", "w", "s", ":", " ", "[", "{", "'", "i", "d", "'", ":", " ", "1", "}", "]">>
          ) @@ (
              "Plan: (no plan)\nSQL: (no sql)\nRows preview count: 0" :> <<"P", "l", "a", "n", ":", " ", "(", "n", "o", " ", "p", "l", "a", "n", ")", "\n", "S", "Q", "L", ":", " ", "(", "n", "o", " ", "s", "q", "l", ")", "\n", "R", "o", "w", "s", " ", "p", "r", "e", "v", "i", "e", "w", " ", "c", "o", "u", "n", "t", ":", " ", "0">>
           @@ "Plan: (no plan)\nSQL: (no sql)\nRows preview count: 1" :> <<"P", "l", "a", "n", ":", " ", "(", "n", "o", " ", "p", "l", "a", "n", ")", "\n", "S", "Q", "L", ":", " ", "(", "n", "o", " ", "s", "q", "l", ")", "\n", "R", "o", "w", "s", " ", "p", "r", "e", "v", "i", "e", "w", " ", "c", "o", "u", "n", "t", ":", " ", "1">>
           @@ "Plan: (no plan)\nSQL: (no sql)\nRows preview count: 2" :> <<"P", "l", "a", "n", ":", " ", "(", "n", "o", " ", "p", "l", "a", "n", ")", "\n", "S", "Q", "L", ":", " ", "(", "n", "o", " ", "s", "q", "l", ")", "\n", "R", "o", "w", "s", " ", "p", "r", "e", "v", "i", "e", "w", " ", "c", "o", "u", "n", "t", ":", " ", "2">>
          )
         )
        ) @@ (
         (
          (
              "Plan: (no plan)\nSQL: (no sql)\nRows preview count: 3" :> <<"P", "l", "a", "n", ":", " ", "(", "n", "o", " ", "p", "l", "a", "n", ")", "\n", "S", "Q", "L", ":", " ", "(", "n", "o", " ", "s", "q", "l", ")", "\n", "R", "o", "w", "s", " ", "p", "r", "e", "v", "i", "e", "w", " ", "c", "o", "u", "n", "t", ":", " ", "3">>
           @@ "Plan: (no plan)\nSQL: SELECT * FROM t1 LIMIT 5\nRows preview count: 0" :> <<"P", "l", "a", "n", ":", " ", "(", "n", "o", " ", "p", "l", "a", "n", ")", "\n", "S", "Q", "L", ":", " ", "S", "E", "L", "E", "C", "T", " ", "*", " ", "F", "R", "O", "M", " ", "t", "1", " ", "L", "I", "M", "I", "T", " ", "5", "\n", "R", "o", "w", "s", " ", "p", "r", "e", "v", "i", "e", "w", " ", "c", "o", "u", "n", "t", ":", " ", "0">>
           @@ "Plan: (no plan)\nSQL: SELECT * FROM t1 LIMIT 5\nRows preview count: 1" :> <<"P", "l", "a", "n", ":", " ", "(", "n", "o", " ", "p", "l", "a", "n", ")", "\n", "S", "Q", "L", ":", " ", "S", "E", "L", "E", "C", "T", " ", "*", " ", "F", "R", "O", "M", " ", "t", "1", " ", "L", "I", "M", "I", "T", " ", "5", "\n", "R", "o", "w", "s", " ", "p", "r", "e", "v", "i", "e", "w", " ", "c", "o", "u", "n", "t", ":", " ", "1">>
          ) @@ (
              "Plan: (no plan)\nSQL: SELECT * FROM t1 LIMIT 5\nRows preview count: 2" :> <<"P", "l", "a", "n", ":", " ", "(", "n", "o", " ", "p", "l", "a", "n", ")", "\n", "S", "Q", "L", ":", " ", "S", "E", "L", "E", "C", "T", " ", "*", " ", "F", "R", "O", "M", " ", "t", "1", " ", "L", "I", "M", "I", "T", " ", "5", "\n", "R", "o", "w", "s", " ", "p", "r", "e", "v", "i", "e", "w", " ", "c", "o", "u", "n", "t", ":", " ", "2">>
           @@ "Plan: (no plan)\nSQL: SELECT * FROM t1 LIMIT 5\nRows preview count: 3" :> <<"P", "l", "a", "n", ":", " ", "(", "n", "o", " ", "p", "l", "a", "n", ")", "\n", "S", "Q", "L", ":", " ", "S", "E", "L", "E", "C", "T", " ", "*", " ", "F", "R", "O", "M", " ", "t", "1", " ", "L", "I", "M", "I", "T", " ", "5", "\n", "R", "o", "w", "s", " ", "p", "r", "e", "v", "i", "e", "w", " ", "c", "o", "u", "n", "t", ":", " ", "3">>
           @@ "Plan: (no plan)\nSQL: SELECT * FROM t1 LIMIT 10\nRows preview count: 0" :> <<"P", "l", "a", "n", ":", " ", "(", "n", "o", " ", "p", "l", "a", "n", ")", "\n", "S", "Q", "L", ":", " ", "S", "E", "L", "E", "C", "T", " ", "*", " ", "F", "R", "O", "M", " ", "t", "1", " ", "L", "I", "M", "I", "T", " ", "1", "0", "\n", "R", "o", "w", "s", " ", "p", "r", "e", "v", "i", "e", "w", " ", "c", "o", "u", "n", "t", ":", " ", "0">>
          )
         ) @@ (
          (
              "Plan: (no plan)\nSQL: SELECT * FROM t1 LIMIT 10\nRows preview count: 1" :> <<"P", "l", "a", "n", ":", " ", "(", "n", "o", " ", "p", "l", "a", "n", ")", "\n", "S", "Q", "L", ":", " ", "S", "E", "L", "E", "C", "T", " ", "*", " ", "F", "R", "O", "M", " ", "t", "1", " ", "L", "I", "M", "I", "T", " ", "1", "0", "\n", "R", "o", "w", "s", " ", "p", "r", "e", "v", "i", "e", "w", " ", "c", "o", "u", "n", "t", ":", " ", "1">>
           @@ "Plan: (no plan)\nSQL: SELECT * FROM t1 LIMIT 10\nRows preview count: 2" :> <<"P", "l", "a", "n", ":", " ", "(", "n", "o", " ", "p", "l", "a", "n", ")", "\n", "S", "Q", "L", ":", " ", "S", "E", "L", "E", "C", "T", " ", "*", " ", "F", "R", "O", "M", " ", "t", "1", " ", "L", "I", "M", "I", "T", " ", "1", "0", "\n", "R", "o", "w", "s", " ", "p", "r", "e", "v", "i", "e", "w", " ", "c", "o", "u", "n", "t", ":", " ", "2">>
           @@ "Plan: (no plan)\nSQL: SELECT * FROM t1 LIMIT 10\nRows preview count: 3" :> <<"P", "l", "a", "n", ":", " ", "(", "n", "o", " ", "p", "l", "a", "n", ")", "\n", "S", "Q", "L", ":", " ", "S", "E", "L", "E", "C", "T", " ", "*", " ", "F", "R", "O", "M", " ", "t", "1", " ", "L", "I", "M", "I", "T", " ", "1", "0", "\n", "R", "o", "w", "s", " ", "p", "r", "e", "v", "i", "e", "w", " ", "c", "o", "u", "n", "t", ":", " ", "3">>
          ) @@ (
              "Plan: (no plan)\nSQL: SELECT * FROM sample_table LIMIT 5\nRows preview count: 0" :> <<"P", "l", "a", "n", ":", " ", "(", "n", "o", " ", "p", "l", "a", "n", ")", "\n", "S", "Q", "L", ":", " ", "S", "E", "L", "E", "C", "T", " ", "*", " ", "F", "R", "O", "M", " ", "s", "a", "m", "p", "l", "e", "_", "t", "a", "b", "l", "e", " ", "L", "I", "M", "I", "T", " ", "5", "\n", "R", "o", "w", "s", " ", "p", "r", "e", "v", "i", "e", "w", " ", "c", "o", "u", "n", "t", ":", " ", "0">>
           @@ "Plan: (no plan)\nSQL: SELECT * FROM sample_table LIMIT 5\nRows preview count: 1" :> <<"P", "l", "a", "n", ":", " ", "(", "n", "o", " ", "p", "l", "a", "n", ")", "\n", "S", "Q", "L", ":", " ", "S", "E", "L", "E", "C", "T", " ", "*", " ", "F", "R", "O", "M", " ", "s", "a", "m", "p", "l", "e", "_", "t", "a", "b", "l", "e", " ", "L", "I", "M", "I", "T", " ", "5", "\n", "R", "o", "w", "s", " ", "p", "r", "e", "v", "i", "e", "w", " ", "c", "o", "u", "n", "t", ":", " ", "1">>
          )
         )
        )
       ) @@ (
        (
         (
          (
              "Plan: (no plan)\nSQL: SELECT * FROM sample_table LIMIT 5\nRows preview count: 2" :> <<"P", "l", "a", "n", ":", " ", "(", "n", "o", " ", "p", "l", "a", "n", ")", "\n", "S", "Q", "L", ":", " ", "S", "E", "L", "E", "C", "T", " ", "*", " ", "F", "R", "O", "M", " ", "s", "a", "m", "p", "l", "e", "_", "t", "a", "b", "l", "e", " ", "L", "I", "M", "I", "T", " ", "5", "\n", "R", "o", "w", "s", " ", "p", "r", "e", "v", "i", "e", "w", " ", "c", "o", "u", "n", "t", ":", " ", "2">>
           @@ "Plan: (no plan)\nSQL: SELECT * FROM sample_table LIMIT 5\nRows preview count: 3" :> <<"P", "l", "a", "n", ":", " ", "(", "n", "o", " ", "p", "l", "a", "n", ")", "\n", "S", "Q", "L", ":", " ", "S", "E", "L", "E", "C", "T", " ", "*", " ", "F", "R", "O", "M", " ", "s", "a", "m", "p", "l", "e", "_", "t", "a", "b", "l", "e", " ", "L", "I", "M", "I", "T", " ", "5", "\n", "R", "o", "w", "s", " ", "p", "r", "e", "v", "i", "e", "w", " ", "c", "o", "u", "n", "t", ":", " ", "3">>
           @@ "Plan: (no plan)\nSQL: SELECT * FROM sample_table LIMIT 10\nRows preview count: 0" :> <<"P", "l", "a", "n", ":", " ", "(", "n", "o", " ", "p", "l", "a", "n", ")", "\n", "S", "Q", "L", ":", " ", "S", "E", "L", "E", "C", "T", " ", "*", " ", "F", "R", "O", "M", " ", "s", "a", "m", "p", "l", "e", "_", "t", "a", "b", "l", "e", " ", "L", "I", "M", "I", "T", " ", "1", "0", "\n", "R", "o", "w", "s", " ", "p", "r", "e", "v", "i", "e", "w", " ", "c", "o", "u", "n", "t", ":", " ", "0">>
          ) @@ (
              "Plan: (no plan)\nSQL: SELECT * FROM sample_table LIMIT 10\nRows preview count: 1" :> <<"P", "l", "a", "n", ":", " ", "(", "n", "o", " ", "p", "l", "a", "n", ")", "\n", "S", "Q", "L", ":", " ", "S", "E", "L", "E", "C", "T", " ", "*", " ", "F", "R", "O", "M", " ", "s", "a", "m", "p", "l", "e", "_", "t", "a", "b", "l", "e", " ", "L", "I", "M", "I", "T", " ", "1", "0", "\n", "R", "o", "w", "s", " ", "p", "r", "e", "v", "i", "e", "w", " ", "c", "o", "u", "n", "t", ":", " ", "1">>
           @@ "Plan: (no plan)\nSQL: SELECT * FROM sample_table LIMIT 10\nRows preview count: 2" :> <<"P", "l", "a", "n", ":", " ", "(", "n", "o", " ", "p", "l", "a", "n", ")", "\n", "S", "Q", "L", ":", " ", "S", "E", "L", "E", "C", "T", " ", "*", " ", "F", "R", "O", "M", " ", "s", "a", "m", "p", "l", "e", "_", "t", "a", "b", "l", "e", " ", "L", "I", "M", "I", "T", " ", "1", "0", "\n", "R", "o", "w", "s", " ", "p", "r", "e", "v", "i", "e", "w", " ", "c", "o", "u", "n", "t", ":", " ", "2">>
           @@ "Plan: (no plan)\nSQL: SELECT * FROM sample_table LIMIT 10\nRows preview count: 3" :> <<"P", "l", "a", "n", ":", " ", "(", "n", "o", " ", "p", "l", "a", "n", ")", "\n", "S", "Q", "L", ":", " ", "S", "E", "L", "E", "C", "T", " ", "*", " ", "F", "R", "O", "M", " ", "s", "a", "m", "p", "l", "e", "_", "t", "a", "b", "l", "e", " ", "L", "I", "M", "I", "T", " ", "1", "0", "\n", "R", "o", "w", "s", " ", "p", "r", "e", "v", "i", "e", "w", " ", "c", "o", "u", "n", "t", ":", " ", "3">>
          )
         ) @@ (
          (
              "Plan: (no plan)\nSQL: SELECT * FROM full_df LIMIT 5\nRows preview count: 0" :> <<"P", "l", "a", "n", ":", " ", "(", "n", "o", " ", "p", "l", "a", "n", ")", "\n", "S", "Q", "L", ":", " ", "S", "E", "L", "E", "C", "T", " ", "*", " ", "F", "R", "O", "M", " ", "f", "u", "l", "l", "_", "d", "f", " ", "L", "I", "M", "I", "T", " ", "5", "\n", "R", "o", "w", "s", " ", "p", "r", "e", "v", "i", "e", "w", " ", "c", "o", "u", "n", "t", ":", " ", "0">>
           @@ "Plan: (no plan)\nSQL: SELECT * FROM full_df LIMIT 5\nRows preview count: 1" :> <<"P", "l", "a", "n", ":", " ", "(", "n", "o", " ", "p", "l", "a", "n", ")", "\n", "S", "Q", "L", ":", " ", "S", "E", "L", "E", "C", "T", " ", "*", " ", "F", "R", "O", "M", " ", "f", "u", "l", "l", "_", "d", "f", " ", "L", "I", "M", "I", "T", " ", "5", "\n", "R", "o", "w", "s", " ", "p", "r", "e", "v", "i", "e", "w", " ", "c", "o", "u", "n", "t", ":", " ", "1">>
           @@ "Plan: (no plan)\nSQL: SELECT * FROM full_df LIMIT 5\nRows preview count: 2" :> <<"P", "l", "a", "n", ":", " ", "(", "n", "o", " ", "p", "l", "a", "n", ")", "\n", "S", "Q", "L", ":", " ", "S", "E", "L", "E", "C", "T", " ", "*", " ", "F", "R", "O", "M", " ", "f", "u", "l", "l", "_", "d", "f", " ", "L", "I", "M", "I", "T", " ", "5", "\n", "R", "o", "w", "s", " ", "p", "r", "e", "v", "i", "e", "w", " ", "c", "o", "u", "n", "t", ":", " ", "2">>
          ) @@ (
              "Plan: (no plan)\nSQL: SELECT * FROM full_df LIMIT 5\nRows preview count: 3" :> <<"P", "l", "a", "n", ":", " ", "(", "n", "o", " ", "p", "l", "a", "n", ")", "\n", "S", "Q", "L", ":", " ", "S", "E", "L", "E", "C", "T", " ", "*", " ", "F", "R", "O", "M", " ", "f", "u", "l", "l", "_", "d", "f", " ", "L", "I", "M", "I", "T", " ", "5", "\n", "R", "o", "w", "s", " ", "p", "r", "e", "v", "i", "e", "w", " ", "c", "o", "u", "n", "t", ":", " ", "3">>
           @@ "Plan: (no plan)\nSQL: SELECT * FROM full_df LIMIT 10\nRows preview count: 0" :> <<"P", "l", "a", "n", ":", " ", "(", "n", "o", " ", "p", "l", "a", "n", ")", "\n", "S", "Q", "L", ":", " ", "S", "E", "L", "E", "C", "T", " ", "*", " ", "F", "R", "O", "M", " ", "f", "u", "l", "l", "_", "d", "f", " ", "L", "I", "M", "I", "T", " ", "1", "0", "\n", "R", "o", "w", "s", " ", "p", "r", "e", "v", "i", "e", "w", " ", "c", "o", "u", "n", "t", ":", " ", "0">>
          )
         )
        ) @@ (
         (
          (
              "Plan: (no plan)\nSQL: SELECT * FROM full_df LIMIT 10\nRows preview count: 1" :> <<"P", "l", "a", "n", ":", " ", "(", "n", "o", " ", "p", "l", "a", "n", ")", "\n", "S", "Q", "L", ":", " ", "S", "E", "L", "E", "C", "T", " ", "*", " ", "F", "R", "O", "M", " ", "f", "u", "l", "l", "_", "d", "f", " ", "L", "I", "M", "I", "T", " ", "1", "0", "\n", "R", "o", "w", "s", " ", "p", "r", "e", "v", "i", "e", "w", " ", "c", "o", "u", "n", "t", ":", " ", "1">>
           @@ "Plan: (no plan)\nSQL: SELECT * FROM full_df LIMIT 10\nRows preview count: 2" :> <<"P", "l", "a", "n", ":", " ", "(", "n", "o", " ", "p", "l", "a", "n", ")", "\n", "S", "Q", "L", ":", " ", "S", "E", "L", "E", "C", "T", " ", "*", " ", "F", "R", "O", "M", " ", "f", "u", "l", "l", "_", "d", "f", " ", "L", "I", "M", "I", "T", " ", "1", "0", "\n", "R", "o", "w", "s", " ", "p", "r", "e", "v", "i", "e", "w", " ", "c", "o", "u", "n", "t", ":", " ", "2">>
           @@ "Plan: (no plan)\nSQL: SELECT * FROM full_df LIMIT 10\nRows preview count: 3" :> <<"P", "l", "a", "n", ":", " ", "(", "n", "o", " ", "p", "l", "a", "n", ")", "\n", "S", "Q", "L", ":", " ", "S", "E", "L", "E", "C", "T", " ", "*", " ", "F", "R", "O", "M", " ", "f", "u", "l", "l", "_", "d", "f", " ", "L", "I", "M", "I", "T", " ", "1", "0", "\n", "R", "o", "w", "s", " ", "p", "r", "e", "v", "i", "e", "w", " ", "c", "o", "u", "n", "t", ":", " ", "3">>
          ) @@ (
              "Plan: (no plan)\nSQL: SELECT id FROM t1 LIMIT 5\nRows preview count: 0" :> <<"P", "l", "a", "n", ":", " ", "(", "n", "o", " ", "p", "l", "a", "n", ")", "\n", "S", "Q", "L", ":", " ", "S", "E", "L", "E", "C", "T", " ", "i", "d", " ", "F", "R", "O", "M", " ", "t", "1", " ", "L", "I", "M", "I", "T", " ", "5", "\n", "R", "o", "w", "s", " ", "p", "r", "e", "v", "i", "e", "w", " ", "c", "o", "u", "n", "t", ":", " ", "0">>
           @@ "Plan: (no plan)\nSQL: SELECT id FROM t1 LIMIT 5\nRows preview count: 1" :> <<"P", "l", "a", "n", ":", " ", "(", "n", "o", " ", "p", "l", "a", "n", ")", "\n", "S", "Q", "L", ":", " ", "S", "E", "L", "E", "C", "T", " ", "i", "d", " ", "F", "R", "O", "M", " ", "t", "1", " ", "L", "I", "M", "I", "T", " ", "5", "\n", "R", "o", "w", "s", " ", "p", "r", "e", "v", "i", "e", "w", " ", "c", "o", "u", "n", "t", ":", " ", "1">>
           @@ "Plan: (no plan)\nSQL: SELECT id FROM t1 LIMIT 5\nRows preview count: 2" :> <<"P", "l", "a", "n", ":", " ", "(", "n", "o", " ", "p", "l", "a", "n", ")", "\n", "S", "Q", "L", ":", " ", "S", "E", "L", "E", "C", "T", " ", "i", "d", " ", "F", "R", "O", "M", " ", "t", "1", " ", "L", "I", "M", "I", "T", " ", "5", "\n", "R", "o", "w", "s", " ", "p", "r", "e", "v", "i", "e", "w", " ", "c", "o", "u", "n", "t", ":", " ", "2">>
          )
         ) @@ (
          (
              "Plan: (no plan)\nSQL: SELECT id FROM t1 LIMIT 5\nRows preview count: 3" :> <<"P", "l", "a", "n", ":", " ", "(", "n", "o", " ", "p", "l", "a", "n", ")", "\n", "S", "Q", "L", ":", " ", "S", "E", "L", "E", "C", "T", " ", "i", "d", " ", "F", "R", "O", "M", " ", "t", "1", " ", "L", "I", "M", "I", "T", " ", "5", "\n", "R", "o", "w", "s", " ", "p", "r", "e", "v", "i", "e", "w", " ", "c", "o", "u", "n", "t", ":", " ", "3">>
           @@ "Plan: (no plan)\nSQL: SELECT id FROM t1 LIMIT 10\nRows preview count: 0" :> <<"P", "l", "a", "n", ":", " ", "(", "n", "o", " ", "p", "l", "a", "n", ")", "\n", "S", "Q", "L", ":", " ", "S", "E", "L", "E", "C", "T", " ", "i", "d", " ", "F", "R", "O", "M", " ", "t", "1", " ", "L", "I", "M", "I", "T", " ", "1", "0", "\n", "R", "o", "w", "s", " ", "p", "r", "e", "v", "i", "e", "w", " ", "c", "o", "u", "n", "t", ":", " ", "0">>
           @@ "Plan: (no plan)\nSQL: SELECT id FROM t1 LIMIT 10\nRows preview count: 1" :> <<"P", "l", "a", "n", ":", " ", "(", "n", "o", " ", "p", "l", "a", "n", ")", "\n", "S", "Q", "L", ":", " ", "S", "E", "L", "E", "C", "T", " ", "i", "d", " ", "F", "R", "O", "M", " ", "t", "1", " ", "L", "I", "M", "I", "T", " ", "1", "0", "\n", "R", "o", "w", "s", " ", "p", "r", "e", "v", "i", "e", "w", " ", "c", "o", "u", "n", "t", ":", " ", "1">>
          ) @@ (
              "Plan: (no plan)\nSQL: SELECT id FROM t1 LIMIT 10\nRows preview count: 2" :> <<"P", "l", "a", "n", ":", " ", "(", "n", "o", " ", "p", "l", "a", "n", ")", "\n", "S", "Q", "L", ":", " ", "S", "E", "L", "E", "C", "T", " ", "i", "d", " ", "F", "R", "O", "M", " ", "t", "1", " ", "L", "I", "M", "I", "T", " ", "1", "0", "\n", "R", "o", "w", "s", " ", "p", "r", "e", "v", "i", "e", "w", " ", "c", "o", "u", "n", "t", ":", " ", "2">>
           @@ "Plan: (no plan)\nSQL: SELECT id FROM t1 LIMIT 10\nRows preview count: 3" :> <<"P", "l", "a", "n", ":", " ", "(", "n", "o", " ", "p", "l", "a", "n", ")", "\n", "S", "Q", "L", ":", " ", "S", "E", "L", "E", "C", "T", " ", "i", "d", " ", "F", "R", "O", "M", " ", "t", "1", " ", "L", "I", "M", "I", "T", " ", "1", "0", "\n", "R", "o", "w", "s", " ", "p", "r", "e", "v", "i", "e", "w", " ", "c", "o", "u", "n", "t", ":", " ", "3">>
          )
         )
        )
       )
      )
     )
    ) @@ (
     (
      (
       (
        (
         (
          (
              "Plan: planner-produced-plan\nSQL: (no sql)\nRows preview count: 0" :> <<"P", "l", "a", "n", ":", " ", "p", "l", "a", "n", "n", "e", "r", "-", "p", "r", "o", "d", "u", "c", "e", "d", "-", "p", "l", "a", "n", "\n", "S", "Q", "L", ":", " ", "(", "n", "o", " ", "s", "q", "l", ")", "\n", "R", "o", "w", "s", " ", "p", "r", "e", "v", "i", "e", "w", " ", "c", "o", "u", "n", "t", ":", " ", "0">>
           @@ "Plan: planner-produced-plan\nSQL: (no sql)\nRows preview count: 1" :> <<"P", "l", "a", "n", ":", " ", "p", "l", "a", "n", "n", "e", "r", "-", "p", "r", "o", "d", "u", "c", "e", "d", "-", "p", "l", "a", "n", "\n", "S", "Q", "L", ":", " ", "(", "n", "o", " ", "s", "q", "l", ")", "\n", "R", "o", "w", "s", " ", "p", "r", "e", "v", "i", "e", "w", " ", "c", "o", "u", "n", "t", ":", " ", "1">>
           @@ "Plan: planner-produced-plan\nSQL: (no sql)\nRows preview count: 2" :> <<"P", "l", "a", "n", ":", " ", "p", "l", "a", "n", "n", "e", "r", "-", "p", "r", "o", "d", "u", "c", "e", "d", "-", "p", "l", "a", "n", "\n", "S", "Q", "L", ":", " ", "(", "n", "o", " ", "s", "q", "l", ")", "\n", "R", "o", "w", "s", " ", "p", "r", "e", "v", "i", "e", "w", " ", "c", "o", "u", "n", "t", ":", " ", "2">>
          ) @@ (
              "Plan: planner-produced-plan\nSQL: (no sql)\nRows preview count: 3" :> <<"P", "l", "a", "n", ":", " ", "p", "l", "a", "n", "n", "e", "r", "-", "p", "r", "o", "d", "u", "c", "e", "d", "-", "p", "l", "a", "n", "\n", "S", "Q", "L", ":", " ", "(", "n", "o", " ", "s", "q", "l", ")", "\n", "R", "o", "w", "s", " ", "p", "r", "e", "v", "i", "e", "w", " ", "c", "o", "u", "n", "t", ":", " ", "3">>
           @@ "Plan: planner-produced-plan\nSQL: SELECT * FROM t1 LIMIT 5\nRows preview count: 0" :> <<"P", "l", "a", "n", ":", " ", "p", "l", "a", "n", "n", "e", "r", "-", "p", "r", "o", "d", "u", "c", "e", "d", "-", "p", "l", "a", "n", "\n", "S", "Q", "L", ":", " ", "S", "E", "L", "E", "C", "T", " ", "*", " ", "F", "R", "O", "M", " ", "t", "1", " ", "L", "I", "M", "I", "T", " ", "5", "\n", "R", "o", "w", "s", " ", "p", "r", "e", "v", "i", "e", "w", " ", "c", "o", "u", "n", "t", ":", " ", "0">>
           @@ "Plan: planner-produced-plan\nSQL: SELECT * FROM t1 LIMIT 5\nRows preview count: 1" :> <<"P", "l", "a", "n", ":", " ", "p", "l", "a", "n", "n", "e", "r", "-", "p", "r", "o", "d", "u", "c", "e", "d", "-", "p", "l", "a", "n", "\n", "S", "Q", "L", ":", " ", "S", "E", "L", "E", "C", "T", " ", "*", " ", "F", "R", "O", "M", " ", "t", "1", " ", "L", "I", "M", "I", "T", " ", "5", "\n", "R", "o", "w", "s", " ", "p", "r", "e", "v", "i", "e", "w", " ", "c", "o", "u", "n", "t", ":", " ", "1">>
          )
         ) @@ (
          (
              "Plan: planner-produced-plan\nSQL: SELECT * FROM t1 LIMIT 5\nRows preview count: 2" :> <<"P", "l", "a", "n", ":", " ", "p", "l", "a", "n", "n", "e", "r", "-", "p", "r", "o", "d", "u", "c", "e", "d", "-", "p", "l", "a", "n", "\n", "S", "Q", "L", ":", " ", "S", "E", "L", "E", "C", "T", " ", "*", " ", "F", "R", "O", "M", " ", "t", "1", " ", "L", "I", "M", "I", "T", " ", "5", "\n", "R", "o", "w", "s", " ", "p", "r", "e", "v", "i", "e", "w", " ", "c", "o", "u", "n", "t", ":", " ", "2">>
           @@ "Plan: planner-produced-plan\nSQL: SELECT * FROM t1 LIMIT 5\nRows preview count: 3" :> <<"P", "l", "a", "n", ":", " ", "p", "l", "a", "n", "n", "e", "r", "-", "p", "r", "o", "d", "u", "c", "e", "d", "-", "p", "l", "a", "n", "\n", "S", "Q", "L", ":", " ", "S", "E", "L", "E", "C", "T", " ", "*", " ", "F", "R", "O", "M", " ", "t", "1", " ", "L", "I", "M", "I", "T", " ", "5", "\n", "R", "o", "w", "s", " ", "p", "r", "e", "v", "i", "e", "w", " ", "c", "o", "u", "n", "t", ":", " ", "3">>
           @@ "Plan: planner-produced-plan\nSQL: SELECT * FROM t1 LIMIT 10\nRows preview count: 0" :> <<"P", "l", "a", "n", ":", " ", "p", "l", "a", "n", "n", "e", "r", "-", "p", "r", "o", "d", "u", "c", "e", "d", "-", "p", "l", "a", "n", "\n", "S", "Q", "L", ":", " ", "S", "E", "L", "E", "C", "T", " ", "*", " ", "F", "R", "O", "M", " ", "t", "1", " ", "L", "I", "M", "I", "T", " ", "1", "0", "\n", "R", "o", "w", "s", " ", "p", "r", "e", "v", "i", "e", "w", " ", "c", "o", "u", "n", "t", ":", " ", "0">>
          ) @@ (
              "Plan: planner-produced-plan\nSQL: SELECT * FROM t1 LIMIT 10\nRows preview count: 1" :> <<"P", "l", "a", "n", ":", " ", "p", "l", "a", "n", "n", "e", "r", "-", "p", "r", "o", "d", "u", "c", "e", "d", "-", "p", "l", "a", "n", "\n", "S", "Q", "L", ":", " ", "S", "E", "L", "E", "C", "T", " ", "*", " ", "F", "R", "O", "M", " ", "t", "1", " ", "L", "I", "M", "I", "T", " ", "1", "0", "\n", "R", "o", "w", "s", " ", "p", "r", "e", "v", "i", "e", "w", " ", "c", "o", "u", "n", "t", ":", " ", "1">>
           @@ "Plan: planner-produced-plan\nSQL: SELECT * FROM t1 LIMIT 10\nRows preview count: 2" :> <<"P", "l", "a", "n", ":", " ", "p", "l", "a", "n", "n", "e", "r", "-", "p", "r", "o", "d", "u", "c", "e", "d", "-", "p", "l", "a", "n", "\n", "S", "Q", "L", ":", " ", "S", "E", "L", "E", "C", "T", " ", "*", " ", "F", "R", "O", "M", " ", "t", "1", " ", "L", "I", "M", "I", "T", " ", "1", "0", "\n", "R", "o", "w", "s", " ", "p", "r", "e", "v", "i", "e", "w", " ", "c", "o", "u", "n", "t", ":", " ", "2">>
           @@ "Plan: planner-produced-plan\nSQL: SELECT * FROM t1 LIMIT 10\nRows preview count: 3" :> <<"P", "l", "a", "n", ":", " ", "p", "l", "a", "n", "n", "e", "r", "-", "p", "r", "o", "d", "u", "c", "e", "d", "-", "p", "l", "a", "n", "\n", "S", "Q", "L", ":", " ", "S", "E", "L", "E", "C", "T", " ", "*", " ", "F", "R", "O", "M", " ", "t", "1", " ", "L", "I", "M", "I", "T", " ", "1", "0", "\n", "R", "o", "w", "s", " ", "p", "r", "e", "v", "i", "e", "w", " ", "c", "o", "u", "n", "t", ":", " ", "3">>
          )
         )
        ) @@ (
         (
          (
              "Plan: planner-produced-plan\nSQL: SELECT * FROM sample_table LIMIT 5\nRows preview count: 0" :> <<"P", "l", "a", "n", ":", " ", "p", "l", "a", "n", "n", "e", "r", "-", "p", "r", "o", "d", "u", "c", "e", "d", "-", "p", "l", "a", "n", "\n", "S", "Q", "L", ":", " ", "S", "E", "L", "E", "C", "T", " ", "*", " ", "F", "R", "O", "M", " ", "s", "a", "m", "p", "l", "e", "_", "t", "a", "b", "l", "e", " ", "L", "I", "M", "I", "T", " ", "5", "\n", "R", "o", "w", "s", " ", "p", "r", "e", "v", "i", "e", "w", " ", "c", "o", "u", "n", "t", ":", " ", "0">>
           @@ "Plan: planner-produced-plan\nSQL: SELECT * FROM sample_table LIMIT 5\nRows preview count: 1" :> <<"P", "l", "a", "n", ":", " ", "p", "l", "a", "n", "n", "e", "r", "-", "p", "r", "o", "d", "u", "c", "e", "d", "-", "p", "l", "a", "n", "\n", "S", "Q", "L", ":", " ", "S", "E", "L", "E", "C", "T", " ", "*", " ", "F", "R", "O", "M", " ", "s", "a", "m", "p", "l", "e", "_", "t", "a", "b", "l", "e", " ", "L", "I", "M", "I", "T", " ", "5", "\n", "R", "o", "w", "s", " ", "p", "r", "e", "v", "i", "e", "w", " ", "c", "o", "u", "n", "t", ":", " ", "1">>
           @@ "Plan: planner-produced-plan\nSQL: SELECT * FROM sample_table LIMIT 5\nRows preview count: 2" :> <<"P", "l", "a", "n", ":", " ", "p", "l", "a", "n", "n", "e", "r", "-", "p", "r", "o", "d", "u", "c", "e", "d", "-", "p", "l", "a", "n", "\n", "S", "Q", "L", ":", " ", "S", "E", "L", "E", "C", "T", " ", "*", " ", "F", "R", "O", "M", " ", "s", "a", "m", "p", "l", "e", "_", "t", "a", "b", "l", "e", " ", "L", "I", "M", "I", "T", " ", "5", "\n", "R", "o", "w", "s", " ", "p", "r", "e", "v", "i", "e", "w", " ", "c", "o", "u", "n", "t", ":", " ", "2">>
          ) @@ (
              "Plan: planner-produced-plan\nSQL: SELECT * FROM sample_table LIMIT 5\nRows preview count: 3" :> <<"P", "l", "a", "n", ":", " ", "p", "l", "a", "n", "n", "e", "r", "-", "p", "r", "o", "d", "u", "c", "e", "d", "-", "p", "l", "a", "n", "\n", "S", "Q", "L", ":", " ", "S", "E", "L", "E", "C", "T", " ", "*", " ", "F", "R", "O", "M", " ", "s", "a", "m", "p", "l", "e", "_", "t", "a", "b", "l", "e", " ", "L", "I", "M", "I", "T", " ", "5", "\n", "R", "o", "w", "s", " ", "p", "r", "e", "v", "i", "e", "w", " ", "c", "o", "u", "n", "t", ":", " ", "3">>
           @@ "Plan: planner-produced-plan\nSQL: SELECT * FROM sample_table LIMIT 10\nRows preview count: 0" :> <<"P", "l", "a", "n", ":", " ", "p", "l", "a", "n", "n", "e", "r", "-", "p", "r", "o", "d", "u", "c", "e", "d", "-", "p", "l", "a", "n", "\n", "S", "Q", "L", ":", " ", "S", "E", "L", "E", "C", "T", " ", "*", " ", "F", "R", "O", "M", " ", "s", "a", "m", "p", "l", "e", "_", "t", "a", "b", "l", "e", " ", "L", "I", "M", "I", "T", " ", "1", "0", "\n", "R", "o", "w", "s", " ", "p", "r", "e", "v", "i", "e", "w", " ", "c", "o", "u", "n", "t", ":", " ", "0">>
           @@ "Plan: planner-produced-plan\nSQL: SELECT * FROM sample_table LIMIT 10\nRows preview count: 1" :> <<"P", "l", "a", "n", ":", " ", "p", "l", "a", "n", "n", "e", "r", "-", "p", "r", "o", "d", "u", "c", "e", "d", "-", "p", "l", "a", "n", "\n", "S", "Q", "L", ":", " ", "S", "E", "L", "E", "C", "T", " ", "*", " ", "F", "R", "O", "M", " ", "s", "a", "m", "p", "l", "e", "_", "t", "a", "b", "l", "e", " ", "L", "I", "M", "I", "T", " ", "1", "0", "\n", "R", "o", "w", "s", " ", "p", "r", "e", "v", "i", "e", "w", " ", "c", "o", "u", "n", "t", ":", " ", "1">>
          )
         ) @@ (
          (
              "Plan: planner-produced-plan\nSQL: SELECT * FROM sample_table LIMIT 10\nRows preview count: 2" :> <<"P", "l", "a", "n", ":", " ", "p", "l", "a", "n", "n", "e", "r", "-", "p", "r", "o", "d", "u", "c", "e", "d", "-", "p", "l", "a", "n", "\n", "S", "Q", "L", ":", " ", "S", "E", "L", "E", "C", "T", " ", "*", " ", "F", "R", "O", "M", " ", "s", "a", "m", "p", "l", "e", "_", "t", "a", "b", "l", "e", " ", "L", "I", "M", "I", "T", " ", "1", "0", "\n", "R", "o", "w", "s", " ", "p", "r", "e", "v", "i", "e", "w", " ", "c", "o", "u", "n", "t", ":", " ", "2">>
           @@ "Plan: planner-produced-plan\nSQL: SELECT * FROM sample_table LIMIT 10\nRows preview count: 3" :> <<"P", "l", "a", "n", ":", " ", "p", "l", "a", "n", "n", "e", "r", "-", "p", "r", "o", "d", "u", "c", "e", "d", "-", "p", "l", "a", "n", "\n", "S", "Q", "L", ":", " ", "S", "E", "L", "E", "C", "T", " ", "*", " ", "F", "R", "O", "M", " ", "s", "a", "m", "p", "l", "e", "_", "t", "a", "b", "l", "e", " ", "L", "I", "M", "I", "T", " ", "1", "0", "\n", "R", "o", "w", "s", " ", "p", "r", "e", "v", "i", "e", "w", " ", "c", "o", "u", "n", "t", ":", " ", "3">>
           @@ "Plan: planner-produced-plan\nSQL: SELECT * FROM full_df LIMIT 5\nRows preview count: 0" :> <<"P", "l", "a", "n", ":", " ", "p", "l", "a", "n", "n", "e", "r", "-", "p", "r", "o", "d", "u", "c", "e", "d", "-", "p", "l", "a", "n", "\n", "S", "Q", "L", ":", " ", "S", "E", "L", "E", "C", "T", " ", "*", " ", "F", "R", "O", "M", " ", "f", "u", "l", "l", "_", "d", "f", " ", "L", "I", "M", "I", "T", " ", "5", "\n", "R", "o", "w", "s", " ", "p", "r", "e", "v", "i", "e", "w", " ", "c", "o", "u", "n", "t", ":", " ", "0">>
          ) @@ (
              "Plan: planner-produced-plan\nSQL: SELECT * FROM full_df LIMIT 5\nRows preview count: 1" :> <<"P", "l", "a", "n", ":", " ", "p", "l", "a", "n", "n", "e", "r", "-", "p", "r", "o", "d", "u", "c", "e", "d", "-", "p", "l", "a", "n", "\n", "S", "Q", "L", ":", " ", "S", "E", "L", "E", "C", "T", " ", "*", " ", "F", "R", "O", "M", " ", "f", "u", "l", "l", "_", "d", "f", " ", "L", "I", "M", "I", "T", " ", "5", "\n", "R", "o", "w", "s", " ", "p", "r", "e", "v", "i", "e", "w", " ", "c", "o", "u", "n", "t", ":", " ", "1">>
           @@ "Plan: planner-produced-plan\nSQL: SELECT * FROM full_df LIMIT 5\nRows preview count: 2" :> <<"P", "l", "a", "n", ":", " ", "p", "l", "a", "n", "n", "e", "r", "-", "p", "r", "o", "d", "u", "c", "e", "d", "-", "p", "l", "a", "n", "\n", "S", "Q", "L", ":", " ", "S", "E", "L", "E", "C", "T", " ", "*", " ", "F", "R", "O", "M", " ", "f", "u", "l", "l", "_", "d", "f", " ", "L", "I", "M", "I", "T", " ", "5", "\n", "R", "o", "w", "s", " ", "p", "r", "e", "v", "i", "e", "w", " ", "c", "o", "u", "n", "t", ":", " ", "2">>
          )
         )
        )
       ) @@ (
        (
         (
          (
              "Plan: planner-produced-plan\nSQL: SELECT * FROM full_df LIMIT 5\nRows preview count: 3" :> <<"P", "l", "a", "n", ":", " ", "p", "l", "a", "n", "n", "e", "r", "-", "p", "r", "o", "d", "u", "c", "e", "d", "-", "p", "l", "a", "n", "\n", "S", "Q", "L", ":", " ", "S", "E", "L", "E", "C", "T", " ", "*", " ", "F", "R", "O", "M", " ", "f", "u", "l", "l", "_", "d", "f", " ", "L", "I", "M", "I", "T", " ", "5", "\n", "R", "o", "w", "s", " ", "p", "r", "e", "v", "i", "e", "w", " ", "c", "o", "u", "n", "t", ":", " ", "3">>
           @@ "Plan: planner-produced-plan\nSQL: SELECT * FROM full_df LIMIT 10\nRows preview count: 0" :> <<"P", "l", "a", "n", ":", " ", "p", "l", "a", "n", "n", "e", "r", "-", "p", "r", "o", "d", "u", "c", "e", "d", "-", "p", "l", "a", "n", "\n", "S", "Q", "L", ":", " ", "S", "E", "L", "E", "C", "T", " ", "*", " ", "F", "R", "O", "M", " ", "f", "u", "l", "l", "_", "d", "f", " ", "L", "I", "M", "I", "T", " ", "1", "0", "\n", "R", "o", "w", "s", " ", "p", "r", "e", "v", "i", "e", "w", " ", "c", "o", "u", "n", "t", ":", " ", "0">>
           @@ "Plan: planner-produced-plan\nSQL: SELECT * FROM full_df LIMIT 10\nRows preview count: 1" :> <<"P", "l", "a", "n", ":", " ", "p", "l", "a", "n", "n", "e", "r", "-", "p", "r", "o", "d", "u", "c", "e", "d", "-", "p", "l", "a", "n", "\n", "S", "Q", "L", ":", " ", "S", "E", "L", "E", "C", "T", " ", "*", " ", "F", "R", "O", "M", " ", "f", "u", "l", "l", "_", "d", "f", " ", "L", "I", "M", "I", "T", " ", "1", "0", "\n", "R", "o", "w", "s", " ", "p", "r", "e", "v", "i", "e", "w", " ", "c", "o", "u", "n", "t", ":", " ", "1">>
          ) @@ (
              "Plan: planner-produced-plan\nSQL: SELECT * FROM full_df LIMIT 10\nRows preview count: 2" :> <<"P", "l", "a", "n", ":", " ", "p", "l", "a", "n", "n", "e", "r", "-", "p", "r", "o", "d", "u", "c", "e", "d", "-", "p", "l", "a", "n", "\n", "S", "Q", "L", ":", " ", "S", "E", "L", "E", "C", "T", " ", "*", " ", "F", "R", "O", "M", " ", "f", "u", "l", "l", "_", "d", "f", " ", "L", "I", "M", "I", "T", " ", "1", "0", "\n", "R", "o", "w", "s", " ", "p", "r", "e", "v", "i", "e", "w", " ", "c", "o", "u", "n", "t", ":", " ", "2">>
           @@ "Plan: planner-produced-plan\nSQL: SELECT * FROM full_df LIMIT 10\nRows preview count: 3" :> <<"P", "l", "a", "n", ":", " ", "p", "l", "a", "n", "n", "e", "r", "-", "p", "r", "o", "d", "u", "c", "e", "d", "-", "p", "l", "a", "n", "\n", "S", "Q", "L", ":", " ", "S", "E", "L", "E", "C", "T", " ", "*", " ", "F", "R", "O", "M", " ", "f", "u", "l", "l", "_", "d", "f", " ", "L", "I", "M", "I", "T", " ", "1", "0", "\n", "R", "o", "w", "s", " ", "p", "r", "e", "v", "i", "e", "w", " ", "c", "o", "u", "n", "t", ":", " ", "3">>
           @@ "Plan: planner-produced-plan\nSQL: SELECT id FROM t1 LIMIT 5\nRows preview count: 0" :> <<"P", "l", "a", "n", ":", " ", "p", "l", "a", "n", "n", "e", "r", "-", "p", "r", "o", "d", "u", "c", "e", "d", "-", "p", "l", "a", "n", "\n", "S", "Q", "L", ":", " ", "S", "E", "L", "E", "C", "T", " ", "i", "d", " ", "F", "R", "O", "M", " ", "t", "1", " ", "L", "I", "M", "I", "T", " ", "5", "\n", "R", "o", "w", "s", " ", "p", "r", "e", "v", "i", "e", "w", " ", "c", "o", "u", "n", "t", ":", " ", "0">>
          )
         ) @@ (
          (
              "Plan: planner-produced-plan\nSQL: SELECT id FROM t1 LIMIT 5\nRows preview count: 1" :> <<"P", "l", "a", "n", ":", " ", "p", "l", "a", "n", "n", "e", "r", "-", "p", "r", "o", "d", "u", "c", "e", "d", "-", "p", "l", "a", "n", "\n", "S", "Q", "L", ":", " ", "S", "E", "L", "E", "C", "T", " ", "i", "d", " ", "F", "R", "O", "M", " ", "t", "1", " ", "L", "I", "M", "I", "T", " ", "5", "\n", "R", "o", "w", "s", " ", "p", "r", "e", "v", "i", "e", "w", " ", "c", "o", "u", "n", "t", ":", " ", "1">>
           @@ "Plan: planner-produced-plan\nSQL: SELECT id FROM t1 LIMIT 5\nRows preview count: 2" :> <<"P", "l", "a", "n", ":", " ", "p", "l", "a", "n", "n", "e", "r", "-", "p", "r", "o", "d", "u", "c", "e", "d", "-", "p", "l", "a", "n", "\n", "S", "Q", "L", ":", " ", "S", "E", "L", "E", "C", "T", " ", "i", "d", " ", "F", "R", "O", "M", " ", "t", "1", " ", "L", "I", "M", "I", "T", " ", "5", "\n", "R", "o", "w", "s", " ", "p", "r", "e", "v", "i", "e", "w", " ", "c", "o", "u", "n", "t", ":", " ", "2">>
           @@ "Plan: planner-produced-plan\nSQL: SELECT id FROM t1 LIMIT 5\nRows preview count: 3" :> <<"P", "l", "a", "n", ":", " ", "p", "l", "a", "n", "n", "e", "r", "-", "p", "r", "o", "d", "u", "c", "e", "d", "-", "p", "l", "a", "n", "\n", "S", "Q", "L", ":", " ", "S", "E", "L", "E", "C", "T", " ", "i", "d", " ", "F", "R", "O", "M", " ", "t", "1", " ", "L", "I", "M", "I", "T", " ", "5", "\n", "R", "o", "w", "s", " ", "p", "r", "e", "v", "i", "e", "w", " ", "c", "o", "u", "n", "t", ":", " ", "3">>
          ) @@ (
              "Plan: planner-produced-plan\nSQL: SELECT id FROM t1 LIMIT 10\nRows preview count: 0" :> <<"P", "l", "a", "n", ":", " ", "p", "l", "a", "n", "n", "e", "r", "-", "p", "r", "o", "d", "u", "c", "e", "d", "-", "p", "l", "a", "n", "\n", "S", "Q", "L", ":", " ", "S", "E", "L", "E", "C", "T", " ", "i", "d", " ", "F", "R", "O", "M", " ", "t", "1", " ", "L", "I", "M", "I", "T", " ", "1", "0", "\n", "R", "o", "w", "s", " ", "p", "r", "e", "v", "i", "e", "w", " ", "c", "o", "u", "n", "t", ":", " ", "0">>
           @@ "Plan: planner-produced-plan\nSQL: SELECT id FROM t1 LIMIT 10\nRows preview count: 1" :> <<"P", "l", "a", "n", ":", " ", "p", "l", "a", "n", "n", "e", "r", "-", "p", "r", "o", "d", "u", "c", "e", "d", "-", "p", "l", "a", "n", "\n", "S", "Q", "L", ":", " ", "S", "E", "L", "E", "C", "T", " ", "i", "d", " ", "F", "R", "O", "M", " ", "t", "1", " ", "L", "I", "M", "I", "T", " ", "1", "0", "\n", "R", "o", "w", "s", " ", "p", "r", "e", "v", "i", "e", "w", " ", "c", "o", "u", "n", "t", ":", " ", "1">>
          )
         )
        ) @@ (
         (
          (
              "Plan: planner-produced-plan\nSQL: SELECT id FROM t1 LIMIT 10\nRows preview count: 2" :> <<"P", "l", "a", "n", ":", " ", "p", "l", "a", "n", "n", "e", "r", "-", "p", "r", "o", "d", "u", "c", "e", "d", "-", "p", "l", "a", "n", "\n", "S", "Q", "L", ":", " ", "S", "E", "L", "E", "C", "T", " ", "i", "d", " ", "F", "R", "O", "M", " ", "t", "1", " ", "L", "I", "M", "I", "T", " ", "1", "0", "\n", "R", "o", "w", "s", " ", "p", "r", "e", "v", "i", "e", "w", " ", "c", "o", "u", "n", "t", ":", " ", "2">>
           @@ "Plan: planner-produced-plan\nSQL: SELECT id FROM t1 LIMIT 10\nRows preview count: 3" :> <<"P", "l", "a", "n", ":", " ", "p", "l", "a", "n", "n", "e", "r", "-", "p", "r", "o", "d", "u", "c", "e", "d", "-", "p", "l", "a", "n", "\n", "S", "Q", "L", ":", " ", "S", "E", "L", "E", "C", "T", " ", "i", "d", " ", "F", "R", "O", "M", " ", "t", "1", " ", "L", "I", "M", "I", "T", " ", "1", "0", "\n", "R", "o", "w", "s", " ", "p", "r", "e", "v", "i", "e", "w", " ", "c", "o", "u", "n", "t", ":", " ", "3">>
           @@ "node_0" :> <<"n", "o", "d", "e", "_", "0">>
          ) @@ (
              "node_0_Planner" :> <<"n", "o", "d", "e", "_", "0", "_", "P", "l", "a", "n", "n", "e", "r">>
           @@ "node_0_SQLGenerator" :> <<"n", "o", "d", "e", "_", "0", "_", "S", "Q", "L", "G", "e", "n", "e", "r", "a", "t", "o", "r">>
           @@ "node_0_Validator" :> <<"n", "o", "d", "e", "_", "0", "_", "V", "a", "l", "i", "d", "a", "t", "o", "r">>
          )
         ) @@ (
          (
              "node_0_SQLRunner" :> <<"n", "o", "d", "e", "_", "0", "_", "S", "Q", "L", "R", "u", "n", "n", "e", "r">>
           @@ "node_0_AnalysisAgent" :> <<"n", "o", "d", "e", "_", "0", "_", "A", "n", "a", "l", "y", "s", "i", "s", "A", "g", "e", "n", "t">>
           @@ "node_0_Summarizer" :> <<"n", "o", "d", "e", "_", "0", "_", "S", "u", "m", "m", "a", "r", "i", "z", "e", "r">>
          ) @@ (
              "node_0_A" :> <<"n", "o", "d", "e", "_", "0", "_", "A">>
           @@ "node_0_B" :> <<"n", "o", "d", "e", "_", "0", "_", "B">>
          )
         )
        )
       )
      ) @@ (
       (
        (
         (
          (
              "node_0_None" :> <<"n", "o", "d", "e", "_", "0", "_", "N", "o", "n", "e">>
           @@ "node_1" :> <<"n", "o", "d", "e", "_", "1">>
           @@ "node_1_Planner" :> <<"n", "o", "d", "e", "_", "1", "_", "P", "l", "a", "n", "n", "e", "r">>
          ) @@ (
              "node_1_SQLGenerator" :> <<"n", "o", "d", "e", "_", "1", "_", "S", "Q", "L", "G", "e", "n", "e", "r", "a", "t", "o", "r">>
           @@ "node_1_Validator" :> <<"n", "o", "d", "e", "_", "1", "_", "V", "a", "l", "i", "d", "a", "t", "o", "r">>
           @@ "node_1_SQLRunner" :> <<"n", "o", "d", "e", "_", "1", "_", "S", "Q", "L", "R", "u", "n", "n", "e", "r">>
          )
         ) @@ (
          (
              "node_1_AnalysisAgent" :> <<"n", "o", "d", "e", "_", "1", "_", "A", "n", "a", "l", "y", "s", "i", "s", "A", "g", "e", "n", "t">>
           @@ "node_1_Summarizer" :> <<"n", "o", "d", "e", "_", "1", "_", "S", "u", "m", "m", "a", "r", "i", "z", "e", "r">>
           @@ "node_1_A" :> <<"n", "o", "d", "e", "_", "1", "_", "A">>
          ) @@ (
              "node_1_B" :> <<"n", "o", "d", "e", "_", "1", "_", "B">>
           @@ "node_1_None" :> <<"n", "o", "d", "e", "_", "1", "_", "N", "o", "n", "e">>
           @@ "node_2" :> <<"n", "o", "d", "e", "_", "2">>
          )
         )
        ) @@ (
         (
          (
              "node_2_Planner" :> <<"n", "o", "d", "e", "_", "2", "_", "P", "l", "a", "n", "n", "e", "r">>
           @@ "node_2_SQLGenerator" :> <<"n", "o", "d", "e", "_", "2", "_", "S", "Q", "L", "G", "e", "n", "e", "r", "a", "t", "o", "r">>
           @@ "node_2_Validator" :> <<"n", "o", "d", "e", "_", "2", "_", "V", "a", "l", "i", "d", "a", "t", "o", "r">>
          ) @@ (
              "node_2_SQLRunner" :> <<"n", "o", "d", "e", "_", "2", "_", "S", "Q", "L", "R", "u", "n", "n", "e", "r">>
           @@ "node_2_AnalysisAgent" :> <<"n", "o", "d", "e", "_", "2", "_", "A", "n", "a", "l", "y", "s", "i", "s", "A", "g", "e", "n", "t">>
           @@ "node_2_Summarizer" :> <<"n", "o", "d", "e", "_", "2", "_", "S", "u", "m", "m", "a", "r", "i", "z", "e", "r">>
          )
         ) @@ (
          (
              "node_2_A" :> <<"n", "o", "d", "e", "_", "2", "_", "A">>
           @@ "node_2_B" :> <<"n", "o", "d", "e", "_", "2", "_", "B">>
           @@ "node_2_None" :> <<"n", "o", "d", "e", "_", "2", "_", "N", "o", "n", "e">>
          ) @@ (
              "node_3" :> <<"n", "o", "d", "e", "_", "3">>
           @@ "node_3_Planner" :> <<"n", "o", "d", "e", "_", "3", "_", "P", "l", "a", "n", "n", "e", "r">>
          )
         )
        )
       ) @@ (
        (
         (
          (
              "node_3_SQLGenerator" :> <<"n", "o", "d", "e", "_", "3", "_", "S", "Q", "L", "G", "e", "n", "e", "r", "a", "t", "o", "r">>
           @@ "node_3_Validator" :> <<"n", "o", "d", "e", "_", "3", "_", "V", "a", "l", "i", "d", "a", "t", "o", "r">>
           @@ "node_3_SQLRunner" :> <<"n", "o", "d", "e", "_", "3", "_", "S", "Q", "L", "R", "u", "n", "n", "e", "r">>
          ) @@ (
              "node_3_AnalysisAgent" :> <<"n", "o", "d", "e", "_", "3", "_", "A", "n", "a", "l", "y", "s", "i", "s", "A", "g", "e", "n", "t">>
           @@ "node_3_Summarizer" :> <<"n", "o", "d", "e", "_", "3", "_", "S", "u", "m", "m", "a", "r", "i", "z", "e", "r">>
           @@ "node_3_A" :> <<"n", "o", "d", "e", "_", "3", "_", "A">>
          )
         ) @@ (
          (
              "node_3_B" :> <<"n", "o", "d", "e", "_", "3", "_", "B">>
           @@ "node_3_None" :> <<"n", "o", "d", "e", "_", "3", "_", "N", "o", "n", "e">>
           @@ "node_4" :> <<"n", "o", "d", "e", "_", "4">>
          ) @@ (
              "node_4_Planner" :> <<"n", "o", "d", "e", "_", "4", "_", "P", "l", "a", "n", "n", "e", "r">>
           @@ "node_4_SQLGenerator" :> <<"n", "o", "d", "e", "_", "4", "_", "S", "Q", "L", "G", "e", "n", "e", "r", "a", "t", "o", "r">>
          )
         )
        ) @@ (
         (
          (
              "node_4_Validator" :> <<"n", "o", "d", "e", "_", "4", "_", "V", "a", "l", "i", "d", "a", "t", "o", "r">>
           @@ "node_4_SQLRunner" :> <<"n", "o", "d", "e", "_", "4", "_", "S", "Q", "L", "R", "u", "n", "n", "e", "r">>
           @@ "node_4_AnalysisAgent" :> <<"n", "o", "d", "e", "_", "4", "_", "A", "n", "a", "l", "y", "s", "i", "s", "A", "g", "e", "n", "t">>
          ) @@ (
              "node_4_Summarizer" :> <<"n", "o", "d", "e", "_", "4", "_", "S", "u", "m", "m", "a", "r", "i", "z", "e", "r">>
           @@ "node_4_A" :> <<"n", "o", "d", "e", "_", "4", "_", "A">>
           @@ "node_4_B" :> <<"n", "o", "d", "e", "_", "4", "_", "B">>
          )
         ) @@ (
          (
              "node_4_None" :> <<"n", "o", "d", "e", "_", "4", "_", "N", "o", "n", "e">>
           @@ "node_5" :> <<"n", "o", "d", "e", "_", "5">>
           @@ "node_5_Planner" :> <<"n", "o", "d", "e", "_", "5", "_", "P", "l", "a", "n", "n", "e", "r">>
          ) @@ (
              "node_5_SQLGenerator" :> <<"n", "o", "d", "e", "_", "5", "_", "S", "Q", "L", "G", "e", "n", "e", "r", "a", "t", "o", "r">>
           @@ "node_5_Validator" :> <<"n", "o", "d", "e", "_", "5", "_", "V", "a", "l", "i", "d", "a", "t", "o", "r">>
          )
         )
        )
       )
      )
     ) @@ (
      (
       (
        (
         (
          (
              "node_5_SQLRunner" :> <<"n", "o", "d", "e", "_", "5", "_", "S", "Q", "L", "R", "u", "n", "n", "e", "r">>
           @@ "node_5_AnalysisAgent" :> <<"n", "o", "d", "e", "_", "5", "_", "A", "n", "a", "l", "y", "s", "i", "s", "A", "g", "e", "n", "t">>
           @@ "node_5_Summarizer" :> <<"n", "o", "d", "e", "_", "5", "_", "S", "u", "m", "m", "a", "r", "i", "z", "e", "r">>
          ) @@ (
              "node_5_A" :> <<"n", "o", "d", "e", "_", "5", "_", "A">>
           @@ "node_5_B" :> <<"n", "o", "d", "e", "_", "5", "_", "B">>
           @@ "node_5_None" :> <<"n", "o", "d", "e", "_", "5", "_", "N", "o", "n", "e">>
          )
         ) @@ (
          (
              "planner default mapping" :> <<"p", "l", "a", "n", "n", "e", "r", " ", "d", "e", "f", "a", "u", "l", "t", " ", "m", "a", "p", "p", "i", "n", "g">>
           @@ "context contains data; prefer summarizer" :> <<"c", "o", "n", "t", "e", "x", "t", " ", "c", "o", "n", "t", "a", "i", "n", "s", " ", "d", "a", "t", "a", ";", " ", "p", "r", "e", "f", "e", "r", " ", "s", "u", "m", "m", "a", "r", "i", "z", "e", "r">>
           @@ "use_existing_df" :> <<"u", "s", "e", "_", "e", "x", "i", "s", "t", "i", "n", "g", "_", "d", "f">>
          ) @@ (
              "confirm_full_run" :> <<"c", "o", "n", "f", "i", "r", "m", "_", "f", "u", "l", "l", "_", "r", "u", "n">>
           @@ "cost_estimate" :> <<"c", "o", "s", "t", "_", "e", "s", "t", "i", "m", "a", "t", "e">>
           @@ "llm_tokens" :> <<"l", "l", "m", "_", "t", "o", "k", "e", "n", "s">>
          )
         )
        ) @@ (
         (
          (
              "scan_bytes_est" :> <<"s", "c", "a", "n", "_", "b", "y", "t", "e", "s", "_", "e", "s", "t">>
           @@ "sample_mode" :> <<"s", "a", "m", "p", "l", "e", "_", "m", "o", "d", "e">>
           @@ "analysis_mode" :> <<"a", "n", "a", "l", "y", "s", "i", "s", "_", "m", "o", "d", "e">>
          ) @@ (
              "regression" :> <<"r", "e", "g", "r", "e", "s", "s", "i", "o", "n">>
           @@ "model" :> <<"m", "o", "d", "e", "l">>
           @@ "default" :> <<"d", "e", "f", "a", "u", "l", "t">>
          )
         ) @@ (
          (
              "unknown" :> <<"u", "n", "k", "n", "o", "w", "n">>
           @@ "report" :> <<"r", "e", "p", "o", "r", "t">>
           @@ "Hacker" :> <<"H", "a", "c", "k", "e", "r">>
          ) @@ (
              "I think we should do X and Y" :> <<"I", " ", "t", "h", "i", "n", "k", " ", "w", "e", " ", "s", "h", "o", "u", "l", "d", " ", "d", "o", " ", "X", " ", "a", "n", "d", " ", "Y">>
           @@ "Here is the plan: " :> <<"H", "e", "r", "e", " ", "i", "s", " ", "t", "h", "e", " ", "p", "l", "a", "n", ":", " ">>
          )
         )
        )
       ) @@ (
        (
         (
          (
              " " :> <<" ">>
           @@ "\n" :> <<"\n">>
           @@ "json" :> <<"j", "s", "o", "n">>
          ) @@ (
              " ok" :> <<" ", "o", "k">>
           @@ "{" :> <<"{">>
           @@ "}" :> <<"}">>
          )
         ) @@ (
          (
              "decision must be a JSON object" :> <<"d", "e", "c", "i", "s", "i", "o", "n", " ", "m", "u", "s", "t", " ", "b", "e", " ", "a", " ", "J", "S", "O", "N", " ", "o", "b", "j", "e", "c", "t">>
           @@ "decision.agents must be a list" :> <<"d", "e", "c", "i", "s", "i", "o", "n", ".", "a", "g", "e", "n", "t", "s", " ", "m", "u", "s", "t", " ", "b", "e", " ", "a", " ", "l", "i", "s", "t">>
           @@ "each agent must be an object" :> <<"e", "a", "c", "h", " ", "a", "g", "e", "n", "t", " ", "m", "u", "s", "t", " ", "b", "e", " ", "a", "n", " ", "o", "b", "j", "e", "c", "t">>
          ) @@ (
              "agent name is not allowed" :> <<"a", "g", "e", "n", "t", " ", "n", "a", "m", "e", " ", "i", "s", " ", "n", "o", "t", " ", "a", "l", "l", "o", "w", "e", "d">>
           @@ "agent.params must be an object/dict" :> <<"a", "g", "e", "n", "t", ".", "p", "a", "r", "a", "m", "s", " ", "m", "u", "s", "t", " ", "b", "e", " ", "a", "n", " ", "o", "b", "j", "e", "c", "t", "/", "d", "i", "c", "t">>
          )
         )
        ) @@ (
         (
          (
              "invalid JSON" :> <<"i", "n", "v", "a", "l", "i", "d", " ", "J", "S", "O", "N">>
           @@ "{\"intent\": \"analyze\", \"agents\": [{\"name\": \"SQLGenerator\", \"params\": {\"max_rows\": 50}}, {\"name\": \"Summarizer\", \"params\": {}}]}" :> <<"{", "\"", "i", "n", "t", "e", "n", "t", "\"", ":", " ", "\"", "a", "n", "a", "l", "y", "z", "e", "\"", ",", " ", "\"", "a", "g", "e", "n", "t", "s", "\"", ":", " ", "[", "{", "\"", "n", "a", "m", "e", "\"", ":", " ", "\"", "S", "Q", "L", "G", "e", "n", "e", "r", "a", "t", "o", "r", "\"", ",", " ", "\"", "p", "a", "r", "a", "m", "s", "\"", ":", " ", "{", "\"", "m", "a", "x", "_", "r", "o", "w", "s", "\"", ":", " ", "5", "0", "}", "}", ",", " ", "{", "\"", "n", "a", "m", "e", "\"", ":", " ", "\"", "S", "u", "m", "m", "a", "r", "i", "z", "e", "r", "\"", ",", " ", "\"", "p", "a", "r", "a", "m", "s", "\"", ":", " ", "{", "}", "}", "]", "}">>
           @@ "{\"agents\": [{\"name\": \"Summarizer\"}]}" :> <<"{", "\"", "a", "g", "e", "n", "t", "s", "\"", ":", " ", "[", "{", "\"", "n", "a", "m", "e", "\"", ":", " ", "\"", "S", "u", "m", "m", "a", "r", "i", "z", "e", "r", "\"", "}", "]", "}">>
          ) @@ (
              "{\"intent\": \"\", \"agents\": []}" :> <<"{", "\"", "i", "n", "t", "e", "n", "t", "\"", ":", " ", "\"", "\"", ",", " ", "\"", "a", "g", "e", "n", "t", "s", "\"", ":", " ", "[", "]", "}">>
           @@ "{\"intent\": \"sql\"}" :> <<"{", "\"", "i", "n", "t", "e", "n", "t", "\"", ":", " ", "\"", "s", "q", "l", "\"", "}">>
           @@ "{\"agents\": \"Summarizer\"}" :> <<"{", "\"", "a", "g", "e", "n", "t", "s", "\"", ":", " ", "\"", "S", "u", "m", "m", "a", "r", "i", "z", "e", "r", "\"", "}">>
          )
         ) @@ (
          (
              "{\"agents\": [{\"name\": \"Hacker\", \"params\": {}}]}" :> <<"{", "\"", "a", "g", "e", "n", "t", "s", "\"", ":", " ", "[", "{", "\"", "n", "a", "m", "e", "\"", ":", " ", "\"", "H", "a", "c", "k", "e", "r", "\"", ",", " ", "\"", "p", "a", "r", "a", "m", "s", "\"", ":", " ", "{", "}", "}", "]", "}">>
           @@ "{\"agents\": [{\"name\": \"Summarizer\", \"params\": [1]}]}" :> <<"{", "\"", "a", "g", "e", "n", "t", "s", "\"", ":", " ", "[", "{", "\"", "n", "a", "m", "e", "\"", ":", " ", "\"", "S", "u", "m", "m", "a", "r", "i", "z", "e", "r", "\"", ",", " ", "\"", "p", "a", "r", "a", "m", "s", "\"", ":", " ", "[", "1", "]", "}", "]", "}">>
           @@ "{\"agents\": [{\"name\": \"Summarizer\", \"params\": []}]}" :> <<"{", "\"", "a", "g", "e", "n", "t", "s", "\"", ":", " ", "[", "{", "\"", "n", "a", "m", "e", "\"", ":", " ", "\"", "S", "u", "m", "m", "a", "r", "i", "z", "e", "r", "\"", ",", " ", "\"", "p", "a", "r", "a", "m", "s", "\"", ":", " ", "[", "]", "}", "]", "}">>
          ) @@ (
              "{\"agents\": [\"Summarizer\"]}" :> <<"{", "\"", "a", "g", "e", "n", "t", "s", "\"", ":", " ", "[", "\"", "S", "u", "m", "m", "a", "r", "i", "z", "e", "r", "\"", "]", "}">>
           @@ "[\"Summarizer\"]" :> <<"[", "\"", "S", "u", "m", "m", "a", "r", "i", "z", "e", "r", "\"", "]">>
          )
         )
        )
       )
      ) @@ (
       (
        (
         (
          (
              "{\"agents\": [{\"name\": \"Summarizer\", \"params\": null}]}" :> <<"{", "\"", "a", "g", "e", "n", "t", "s", "\"", ":", " ", "[", "{", "\"", "n", "a", "m", "e", "\"", ":", " ", "\"", "S", "u", "m", "m", "a", "r", "i", "z", "e", "r", "\"", ",", " ", "\"", "p", "a", "r", "a", "m", "s", "\"", ":", " ", "n", "u", "l", "l", "}", "]", "}">>
           @@ "{\"agents\": [{\"params\": {}}]}" :> <<"{", "\"", "a", "g", "e", "n", "t", "s", "\"", ":", " ", "[", "{", "\"", "p", "a", "r", "a", "m", "s", "\"", ":", " ", "{", "}", "}", "]", "}">>
           @@ "analy" :> <<"a", "n", "a", "l", "y">>
          ) @@ (
              "analysis" :> <<"a", "n", "a", "l", "y", "s", "i", "s">>
           @@ "regress" :> <<"r", "e", "g", "r", "e", "s", "s">>
           @@ "correlat" :> <<"c", "o", "r", "r", "e", "l", "a", "t">>
          )
         ) @@ (
          (
              "drivers" :> <<"d", "r", "i", "v", "e", "r", "s">>
           @@ "predict" :> <<"p", "r", "e", "d", "i", "c", "t">>
           @@ "summarise" :> <<"s", "u", "m", "m", "a", "r", "i", "s", "e">>
          ) @@ (
              "overview" :> <<"o", "v", "e", "r", "v", "i", "e", "w">>
           @@ "insight" :> <<"i", "n", "s", "i", "g", "h", "t">>
          )
         )
        ) @@ (
         (
          (
              "count" :> <<"c", "o", "u", "n", "t">>
           @@ "how many" :> <<"h", "o", "w", " ", "m", "a", "n", "y">>
           @@ "top" :> <<"t", "o", "p">>
          ) @@ (
              "sum" :> <<"s", "u", "m">>
           @@ "avg" :> <<"a", "v", "g">>
           @@ "group by" :> <<"g", "r", "o", "u", "p", " ", "b", "y">>
          )
         ) @@ (
          (
              "order by" :> <<"o", "r", "d", "e", "r", " ", "b", "y">>
           @@ "select" :> <<"s", "e", "l", "e", "c", "t">>
           @@ "min" :> <<"m", "i", "n">>
          ) @@ (
              "max" :> <<"m", "a", "x">>
           @@ "correlate" :> <<"c", "o", "r", "r", "e", "l", "a", "t", "e">>
          )
         )
        )
       ) @@ (
        (
         (
          (
              "Summarize" :> <<"S", "u", "m", "m", "a", "r", "i", "z", "e">>
           @@ "assumption" :> <<"a", "s", "s", "u", "m", "p", "t", "i", "o", "n">>
           @@ "sales" :> <<"s", "a", "l", "e", "s">>
          ) @@ (
              "summarized" :> <<"s", "u", "m", "m", "a", "r", "i", "z", "e", "d">>
           @@ "0.95" :> <<"0", ".", "9", "5">>
           @@ "0.92" :> <<"0", ".", "9", "2">>
          )
         ) @@ (
          (
              "0.93" :> <<"0", ".", "9", "3">>
           @@ "0.9" :> <<"0", ".", "9">>
           @@ "0.5" :> <<"0", ".", "5">>
          ) @@ (
              "LLM summary of the DataFrame" :> <<"L", "L", "M", " ", "s", "u", "m", "m", "a", "r", "y", " ", "o", "f", " ", "t", "h", "e", " ", "D", "a", "t", "a", "F", "r", "a", "m", "e">>
           @@ "LLM summary of the findings" :> <<"L", "L", "M", " ", "s", "u", "m", "m", "a", "r", "y", " ", "o", "f", " ", "t", "h", "e", " ", "f", "i", "n", "d", "i", "n", "g", "s">>
          )
         )
        ) @@ (
         (
          (
              "FROM full_df" :> <<"F", "R", "O", "M", " ", "f", "u", "l", "l", "_", "d", "f">>
           @@ "Give me a summary of the dataframe" :> <<"G", "i", "v", "e", " ", "m", "e", " ", "a", " ", "s", "u", "m", "m", "a", "r", "y", " ", "o", "f", " ", "t", "h", "e", " ", "d", "a", "t", "a", "f", "r", "a", "m", "e">>
           @@ "Summarize the provided dataset" :> <<"S", "u", "m", "m", "a", "r", "i", "z", "e", " ", "t", "h", "e", " ", "p", "r", "o", "v", "i", "d", "e", "d", " ", "d", "a", "t", "a", "s", "e", "t">>
          ) @@ (
              "analyze the drivers" :> <<"a", "n", "a", "l", "y", "z", "e", " ", "t", "h", "e", " ", "d", "r", "i", "v", "e", "r", "s">>
           @@ "how many rows" :> <<"h", "o", "w", " ", "m", "a", "n", "y", " ", "r", "o", "w", "s">>
           @@ "hello" :> <<"h", "e", "l", "l", "o">>
          )
         ) @@ (
          (
              "auto" :> <<"a", "u", "t", "o">>
           @@ "router_confidence" :> <<"r", "o", "u", "t", "e", "r", "_", "c", "o", "n", "f", "i", "d", "e", "n", "c", "e">>
           @@ "3 rows" :> <<"3", " ", "r", "o", "w", "s">>
          ) @@ (
              "2 columns" :> <<"2", " ", "c", "o", "l", "u", "m", "n", "s">>
           @@ "" :> <<>>
          )
         )
        )
       )
      )
     )
    )
\* CHARS-END

Chars(s) == CharTable[s]

UpperToLower ==
       "A" :> "a" @@ "B" :> "b" @@ "C" :> "c" @@ "D" :> "d" @@ "E" :> "e"
    @@ "F" :> "f" @@ "G" :> "g" @@ "H" :> "h" @@ "I" :> "i" @@ "J" :> "j"
    @@ "K" :> "k" @@ "L" :> "l" @@ "M" :> "m" @@ "N" :> "n" @@ "O" :> "o"
    @@ "P" :> "p" @@ "Q" :> "q" @@ "R" :> "r" @@ "S" :> "s" @@ "T" :> "t"
    @@ "U" :> "u" @@ "V" :> "v" @@ "W" :> "w" @@ "X" :> "x" @@ "Y" :> "y"
    @@ "Z" :> "z"

Digits == {"0", "1", "2", "3", "4", "5", "6", "7", "8", "9"}

\* str.lower() on a character sequence
Lower(cs) == [i \in 1..Len(cs) |->
                 IF cs[i] \in DOMAIN UpperToLower THEN UpperToLower[cs[i]] ELSE cs[i]]

\* Python's `sub in text` on character sequences
Contains(text, sub) ==
    \E i \in 1..(Len(text) - Len(sub) + 1) : SubSeq(text, i, i + Len(sub) - 1) = sub

-----------------------------------------------------------------------------
(* langgraph_adapter.py: _redact_value and _redact *)

REDACTED == Str("<REDACTED>")

\* the character class [A-Za-z0-9_\-]
TokenChar(c) ==
    \/ c \in DOMAIN UpperToLower
    \/ c \in {UpperToLower[u] : u \in DOMAIN UpperToLower}
    \/ c \in Digits
    \/ c \in {"_", "-"}

MinTokenRun == 8

\* re.search(r"sk-[A-Za-z0-9_\-]{8,}", v)
SecretPattern(cs) ==
    \E i \in 1..Len(cs) :
        /\ i + 2 + MinTokenRun <= Len(cs)
        /\ SubSeq(cs, i, i + 2) = <<"s", "k", "-">>
        /\ \A j \in (i + 3)..(i + 2 + MinTokenRun) : TokenChar(cs[j])

_redact_value(v) ==
    IF v.t = "str"
    THEN IF SecretPattern(Chars(v.v)) THEN REDACTED ELSE v
    ELSE v

SecretKeyParts == {"key", "secret", "token", "password", "api"}

\* any(s in kl for s in ("key", "secret", "token", "password", "api"))
IsSecretKey(k) == \E s \in SecretKeyParts : Contains(Lower(Chars(k)), Chars(s))

\* _redact without the list branch
RECURSIVE RedactNoLists(_)
RedactNoLists(obj) ==
    The({IF x.t = "dict"
         THEN Dict([k \in DOMAIN x.v |->
                       IF IsSecretKey(k) THEN REDACTED ELSE RedactNoLists(x.v[k])])
         ELSE _redact_value(x) : x \in {obj}})

RECURSIVE _redact(_)
_redact(obj) ==
    The({IF x.t = "dict"
         THEN Dict([k \in DOMAIN x.v |->
                       IF IsSecretKey(k) THEN REDACTED ELSE _redact(x.v[k])])
         ELSE IF x.t = "list"
         THEN List([j \in 1..Len(x.v) |-> _redact(x.v[j])])
         ELSE _redact_value(x) : x \in {obj}})

-----------------------------------------------------------------------------
(* Python helpers used by the orchestrator *)

\* bool(x)
Truthy(x) ==
    CASE x.t = "none" -> FALSE
      [] x.t = "bool" -> x.v
      [] x.t = "int"  -> x.v # 0
      [] x.t = "str"  -> x.v # ""
      [] x.t = "dict" -> DOMAIN x.v # {}
      [] x.t = "list" -> Len(x.v) > 0
      [] OTHER        -> TRUE

\* the string whose characters are cs (the inverse of Chars)
StrOf(cs) == CHOOSE s \in DOMAIN CharTable : CharTable[s] = cs

\* str(n) for the small integers of the model
IntStr(n) == <<"0", "1", "2", "3", "4", "5", "6", "7", "8", "9", "10">>[n + 1]

\* seq[:n]
Take(q, n) == SubSeq(q, 1, IF Len(q) < n THEN Len(q) ELSE n)

\* the outcome of a call: a returned value, or a raised exception carrying str(e)
Ok(val) == [raised |-> FALSE, val |-> val]
Raise(msg) == [raised |-> TRUE, val |-> Str(msg)]

-----------------------------------------------------------------------------
(* External collaborators (spec section 6): the data-source handle, the    *)
(* dataframes and the LLM client.  They are not code of the repository;    *)
(* the model fixes a few concrete ones.                                    *)

\* Dataframes: the caller's 3x2 frame of tests/test_data_handling.py, a frame without
\* columns (DataFrame.describe() raises on it), and the result of a query on table t1.
DataFrames ==
       "ctx_df"   :> [n_rows |-> 3, n_cols |-> 2, cols |-> "['a', 'b']",
                      rows |-> <<Dict("a" :> Num(1) @@ "b" :> Num(10)),
                                 Dict("a" :> Num(2) @@ "b" :> Num(20)),
                                 Dict("a" :> Num(3) @@ "b" :> Num(30))>>,
                      sample |-> "[{'a': 1, 'b': 10}, {'a': 2, 'b': 20}, {'a': 3, 'b': 30}]"]
    @@ "empty_df" :> [n_rows |-> 0, n_cols |-> 0, cols |-> "[]", rows |-> <<>>,
                      sample |-> "[]"]
    @@ "query_df" :> [n_rows |-> 1, n_cols |-> 1, cols |-> "['id']",
                      rows |-> <<Dict("id" :> Num(1))>>,
                      sample |-> "[{'id': 1}]"]

\* isinstance(x, pd.DataFrame)
IsDataFrame(x) == x.t = "obj" /\ x.v \in DOMAIN DataFrames

\* df.describe().to_dict(): raises ValueError on a frame without columns
DfDescribe(df) ==
    IF DataFrames[df.v].n_cols = 0
    THEN Raise("Cannot describe a DataFrame without columns")
    ELSE Ok(Dict("describe" :> Obj("describe")))

\* Data-source handles: conn_t1 holds one table t1; conn_empty holds no table; the
\* _reg handles hold the caller's dataframe, registered as table full_df, as well.
\* conn.execute("SHOW TABLES").fetchdf(): the table names
ConnTables(conn) ==
    CASE conn.v = "conn_t1" -> <<"t1">>
      [] conn.v = "conn_t1_reg" -> <<"full_df", "t1">>
      [] conn.v = "conn_empty_reg" -> <<"full_df">>
      [] OTHER -> <<>>

\* conn.execute(sql).fetchdf(): a query that names a table the handle holds gives its
\* rows; any other query raises the engine's catalog error
ConnExecute(conn, sql) ==
    IF \E i \in 1..Len(ConnTables(conn)) :
           Contains(Chars(sql), Chars("FROM " \o ConnTables(conn)[i]))
    THEN Ok(Obj(IF Contains(Chars(sql), Chars("FROM full_df")) THEN "ctx_df" ELSE "query_df"))
    ELSE Raise("Catalog Error: Table does not exist")

\* llm.generate(prompt): llm_ok returns a completion for the prompt it is given (the SQL
\* template, the dataframe-summary template or the findings-summary template), llm_raise
\* raises
LlmGenerate(llm, purpose) ==
    IF llm.v = "llm_ok"
    THEN Ok(Str(CASE purpose = "sql" -> "SELECT id FROM t1;"
                  [] purpose = "dataframe" -> "LLM summary of the DataFrame"
                  [] purpose = "findings" -> "LLM summary of the findings"))
    ELSE Raise("llm unavailable")

-----------------------------------------------------------------------------
(* orchestrator.py: the registered capabilities.  Each takes the node       *)
(* {"params": ...} and the run state (a key -> value function) and gives    *)
(* Ok(output) or Raise(message).                                            *)

_run_planner(node, state) == Ok(Dict("plan" :> Str("planner-produced-plan")))

\* text.strip().rstrip(";") on the completions of the model (no surrounding blanks)
RStripSemicolon(s) ==
    LET cs == Chars(s) IN
    IF Len(cs) > 0 /\ cs[Len(cs)] = ";" THEN StrOf(SubSeq(cs, 1, Len(cs) - 1)) ELSE s

\* lines 39-68: the canned query
CannedSql(state, limit) ==
    LET explicit == Get(state, "full_df_table_name", None)
        conn == Get(state, "conn", None)
        discovered ==
            IF ~Truthy(explicit) /\ conn # None /\ Len(ConnTables(conn)) > 0
            THEN Str(ConnTables(conn)[1])
            ELSE explicit
        table_name == IF Truthy(discovered) THEN discovered.v ELSE "sample_table"
    IN  Ok(Dict("sql" :> Str("SELECT * FROM " \o table_name \o " LIMIT " \o IntStr(limit))))

_run_sqlgenerator(node, state) ==
    LET params == Get(node.v, "params", EmptyDict)
        llm == Get(state, "llm", None)
    IN  IF params.t # "dict"
        THEN Raise("'NoneType' object has no attribute 'get'")
        ELSE LET limit == Get(params.v, "max_rows", Num(10)).v
                 gen == LlmGenerate(llm, "sql")
             IN  IF Truthy(llm) /\ ~gen.raised
                 THEN IF ~Contains(Lower(Chars(gen.val.v)), Chars("limit"))
                      THEN Ok(Dict("sql" :> Str(RStripSemicolon(gen.val.v)
                                                 \o " LIMIT " \o IntStr(limit))))
                      ELSE Ok(Dict("sql" :> gen.val))
                 ELSE CannedSql(state, limit)

_run_validator(node, state) == Ok(Dict("valid" :> Bool(TRUE) @@ "issues" :> EmptyList))

PlaceholderRows == List(<<Dict("col1" :> Num(1) @@ "col2" :> Str("example"))>>)

_run_sqlrunner(node, state) ==
    LET conn == Get(state, "conn", None)
        sql == Get(state, "last_sql", None)
    IN  IF conn # None /\ Truthy(sql)
        THEN LET cur == ConnExecute(conn, sql.v) IN
             IF cur.raised
             THEN Ok(Dict("error" :> cur.val))
             ELSE Ok(Dict("rows_preview" :> List(Take(DataFrames[cur.val.v].rows, 20))
                          @@ "full_df" :> cur.val))
        ELSE Ok(Dict("rows_preview" :> PlaceholderRows @@ "full_df" :> None))

_run_analysisagent(node, state) ==
    LET df == Get(state, "full_df", None) IN
    IF IsDataFrame(df)
    THEN IF DfDescribe(df).raised
         THEN DfDescribe(df)
         ELSE Ok(Dict("analysis_code" :> None
                      @@ "artifacts" :> DfDescribe(df).val
                      @@ "metrics" :> Dict("n_rows" :> Num(DataFrames[df.v].n_rows))))
    ELSE Ok(Dict("analysis_code" :> None
                 @@ "artifacts" :> Dict("note" :> Str("no dataframe provided to AnalysisAgent"))
                 @@ "metrics" :> EmptyDict))

\* lines 171-174 (the source's double backquotes around Agent.run(...) are left out:
\* a TLA+ string cannot hold them)
NoDataMessage ==
    "No data available to summarize. Provide a DataFrame via Agent.run(..., data=...) or run a SQL-producing plan so results can be summarized."

\* lines 144-147: the deterministic summary of a dataframe
DfSummary(df) ==
    "DataFrame with " \o IntStr(DataFrames[df.v].n_rows) \o " rows and "
    \o IntStr(DataFrames[df.v].n_cols) \o " columns. Columns: " \o DataFrames[df.v].cols
    \o ". Sample rows: " \o DataFrames[df.v].sample

\* _run_summarizer asking the LLM for the findings summary before it looks at the dataframe
SummarizerLlmFirst(node, state) ==
    LET plan == Get(state, "plan_text", Str("(no plan)"))
        last_sql == Get(state, "last_sql", Str("(no sql)"))
        rows == Get(state, "rows_preview", EmptyList)
        full_df == Get(state, "full_df", None)
        llm == Get(state, "llm", None)
    IN  IF Truthy(llm) /\ ~LlmGenerate(llm, "findings").raised
        THEN Ok(Dict("summary" :> LlmGenerate(llm, "findings").val
                     @@ "llm_used" :> Bool(TRUE)))
        ELSE IF full_df # None /\ IsDataFrame(full_df)
        THEN Ok(Dict("summary" :> Str(DfSummary(full_df))))
        ELSE IF ~Truthy(rows)
        THEN Ok(Dict("summary" :> Str(NoDataMessage) @@ "llm_used" :> Bool(FALSE)))
        ELSE Ok(Dict("summary" :> Str("Plan: " \o plan.v \o "\nSQL: " \o last_sql.v
                                      \o "\nRows preview count: " \o IntStr(Len(rows.v)))
                     @@ "llm_used" :> Bool(FALSE)))

_run_summarizer(node, state) ==
    LET plan == Get(state, "plan_text", Str("(no plan)"))
        last_sql == Get(state, "last_sql", Str("(no sql)"))
        rows == Get(state, "rows_preview", EmptyList)
        full_df == Get(state, "full_df", None)
        llm == Get(state, "llm", None)
    IN  IF full_df # None /\ IsDataFrame(full_df)
        THEN IF Truthy(llm) /\ ~LlmGenerate(llm, "dataframe").raised
             THEN Ok(Dict("summary" :> LlmGenerate(llm, "dataframe").val
                          @@ "llm_used" :> Bool(TRUE)))
             ELSE Ok(Dict("summary" :> Str(DfSummary(full_df))))
        ELSE IF Truthy(llm) /\ ~LlmGenerate(llm, "findings").raised
        THEN Ok(Dict("summary" :> LlmGenerate(llm, "findings").val
                     @@ "llm_used" :> Bool(TRUE)))
        ELSE IF ~Truthy(rows)
        THEN Ok(Dict("summary" :> Str(NoDataMessage) @@ "llm_used" :> Bool(FALSE)))
        ELSE Ok(Dict("summary" :> Str("Plan: " \o plan.v \o "\nSQL: " \o last_sql.v
                                      \o "\nRows preview count: " \o IntStr(Len(rows.v)))
                     @@ "llm_used" :> Bool(FALSE)))

\* AGENT_IMPL
AGENT_IMPL == {"Planner", "SQLGenerator", "Validator", "SQLRunner", "AnalysisAgent",
               "Summarizer"}

Impl(name, node, state) ==
    CASE name = "Planner"       -> _run_planner(node, state)
      [] name = "SQLGenerator"  -> _run_sqlgenerator(node, state)
      [] name = "Validator"     -> _run_validator(node, state)
      [] name = "SQLRunner"     -> _run_sqlrunner(node, state)
      [] name = "AnalysisAgent" -> _run_analysisagent(node, state)
      [] name = "Summarizer"    -> _run_summarizer(node, state)

-----------------------------------------------------------------------------
(* orchestrator.py: execute *)

\* SeedState carrying the caller's rows_preview over as well
SeedStateWithPreview(context) ==
       "conn"    :> Get(context.v, "conn", None)
    @@ "prompt"  :> Get(context.v, "prompt", None)
    @@ "llm"     :> Get(context.v, "llm", None)
    @@ "full_df" :> Get(context.v, "full_df", None)
    @@ "rows_preview" :> Get(context.v, "rows_preview", EmptyList)

\* lines 199-204: the run state seeded from the caller's context
SeedState(context) ==
       "conn"    :> Get(context.v, "conn", None)
    @@ "prompt"  :> Get(context.v, "prompt", None)
    @@ "llm"     :> Get(context.v, "llm", None)
    @@ "full_df" :> Get(context.v, "full_df", None)

\* lines 248-252: a bare name becomes {name, params: {}}
Normalize(raw_node) ==
    IF raw_node.t = "str"
    THEN Dict("name" :> raw_node @@ "params" :> EmptyDict)
    ELSE IF Truthy(raw_node) THEN raw_node
    ELSE Dict("name" :> Str("") @@ "params" :> EmptyDict)

NodeName(raw_node) == Get(Normalize(raw_node).v, "name", None)
NodeParams(raw_node) == Get(Normalize(raw_node).v, "params", EmptyDict)

IsRegistered(name) == name.t = "str" /\ name.v \in AGENT_IMPL

UnknownAgent == Dict("error" :> Str("unknown agent"))

\* lines 264-273: the recognised output keys and the run-state slots they overwrite
SlotOf == "sql" :> "last_sql" @@ "rows_preview" :> "rows_preview"
          @@ "full_df" :> "full_df" @@ "plan" :> "plan_text"

\* ApplyOutput writing a slot only when the run state does not hold it yet
ApplyOutputSetDefault(state, out) ==
    IF out.t # "dict" THEN state
    ELSE LET written == {SlotOf[k] : k \in (DOMAIN SlotOf) \cap (DOMAIN out.v)}
             KeyFor(slot) == CHOOSE k \in DOMAIN SlotOf : SlotOf[k] = slot
         IN  [s \in (DOMAIN state) \cup written |->
                 IF s \in written /\ s \notin DOMAIN state THEN out.v[KeyFor(s)]
                 ELSE state[s]]

\* ApplyOutput leaving a slot alone when the output's value for it is None
ApplyOutputSkipNone(state, out) ==
    IF out.t # "dict" THEN state
    ELSE LET written == {SlotOf[k] : k \in {x \in (DOMAIN SlotOf) \cap (DOMAIN out.v) :
                                                out.v[x] # None}}
             KeyFor(slot) == CHOOSE k \in DOMAIN SlotOf : SlotOf[k] = slot
         IN  [s \in (DOMAIN state) \cup written |->
                 IF s \in written THEN out.v[KeyFor(s)] ELSE state[s]]

ApplyOutput(state, out) ==
    IF out.t # "dict" THEN state
    ELSE LET written == {SlotOf[k] : k \in (DOMAIN SlotOf) \cap (DOMAIN out.v)}
             KeyFor(slot) == CHOOSE k \in DOMAIN SlotOf : SlotOf[k] = slot
         IN  [s \in (DOMAIN state) \cup written |->
                 IF s \in written THEN out.v[KeyFor(s)] ELSE state[s]]

\* ExecIteration with an unregistered name raising instead of being recorded
ExecIterationUnknownRaises(raw_node, state, results) ==
    The({IF ~IsRegistered(name)
         THEN [raised |-> TRUE, known |-> FALSE, out |-> Str("unknown agent"), state |-> st,
               results |-> res]
         ELSE The({IF r.raised
                   THEN [raised |-> TRUE, known |-> TRUE, out |-> r.val, state |-> st,
                         results |-> res]
                   ELSE [raised |-> FALSE, known |-> TRUE, out |-> r.val,
                         state |-> ApplyOutput(st, r.val),
                         results |-> Put(res, name.v, r.val)] :
                   r \in {Impl(name.v, Dict("params" :> NodeParams(raw_node)), st)}}) :
         name \in {NodeName(raw_node)}, st \in {state}, res \in {results}})

\* ExecIteration keeping the first output recorded under a name
ExecIterationKeepFirst(raw_node, state, results) ==
    The({IF ~IsRegistered(name)
         THEN [raised |-> FALSE, known |-> FALSE, out |-> UnknownAgent, state |-> st,
               results |-> Put(res, name.v, UnknownAgent)]
         ELSE The({IF r.raised
                   THEN [raised |-> TRUE, known |-> TRUE, out |-> r.val, state |-> st,
                         results |-> res]
                   ELSE [raised |-> FALSE, known |-> TRUE, out |-> r.val,
                         state |-> ApplyOutput(st, r.val),
                         results |-> IF name.v \in DOMAIN res THEN res
                                     ELSE Put(res, name.v, r.val)] :
                   r \in {Impl(name.v, Dict("params" :> NodeParams(raw_node)), st)}}) :
         name \in {NodeName(raw_node)}, st \in {state}, res \in {results}})

\* lines 247-273: one iteration of the loop on raw_node.  Gives the run state and the
\* results after it, the step's output, and whether the capability raised.
ExecIteration(raw_node, state, results) ==
    The({IF ~IsRegistered(name)
         THEN [raised |-> FALSE, known |-> FALSE, out |-> UnknownAgent, state |-> st,
               results |-> Put(res, name.v, UnknownAgent)]
         ELSE The({IF r.raised
                   THEN [raised |-> TRUE, known |-> TRUE, out |-> r.val, state |-> st,
                         results |-> res]
                   ELSE [raised |-> FALSE, known |-> TRUE, out |-> r.val,
                         state |-> ApplyOutput(st, r.val),
                         results |-> Put(res, name.v, r.val)] :
                   r \in {Impl(name.v, Dict("params" :> NodeParams(raw_node)), st)}}) :
         name \in {NodeName(raw_node)}, st \in {state}, res \in {results}})

\* lines 275-285: the top-level result
TopResult(decision, state, results) ==
    LET base == "decision" :> decision
                @@ "results" :> Dict(results)
                @@ "summary" :> List(Take(Get(state, "rows_preview", EmptyList).v, 5))
        summ == Get(results, "Summarizer", None)
    IN  IF Truthy(summ) /\ summ.t = "dict" /\ "summary" \in DOMAIN summ.v
        THEN Dict(base @@ "summary_text" :> summ.v["summary"])
        ELSE Dict(base)

Agents(decision) == Get(decision.v, "agents", EmptyList).v

RECURSIVE ExecLoop(_, _, _, _)
ExecLoop(decision, k, state, results) ==
    IF k > Len(Agents(decision))
    THEN Ok(TopResult(decision, state, results))
    ELSE The({IF it.raised THEN [raised |-> TRUE, val |-> it.out]
              ELSE ExecLoop(decision, k + 1, it.state, it.results) :
              it \in {ExecIteration(Agents(decision)[k], state, results)}})

\* execute(decision, context) as one call (the graph adapter's node callables use it).
\* The contexts of the model never set prefer_langgraph, so lines 209-245 are skipped.
execute(decision, context) == ExecLoop(decision, 1, SeedState(context), <<>>)

-----------------------------------------------------------------------------
(* langgraph_mapping.py: build_run_payload *)

\* x or y
OrElse(x, y) == IF Truthy(x) THEN x ELSE y

ItemId(a, pos) == OrElse(Get(a.v, "id", None), Str("node_" \o IntStr(pos)))

\* ItemOutputs ignoring what the step declares
ItemOutputsResultOnly(a) == List(<<Str("result")>>)

ItemOutputs(a) ==
    LET outputs == OrElse(OrElse(Get(a.v, "outputs", None), Get(a.v, "provides", None)),
                          List(<<Str("result")>>))
    IN  IF outputs.t = "str" THEN List(<<outputs>>) ELSE outputs

build_run_payload(decision) ==
    LET agents == OrElse(Get(decision.v, "agents", EmptyList), EmptyList).v
        n == Len(agents)
        declared(i) == IF Get(agents[i].v, "depends_on", None) # None
                       THEN agents[i].v["depends_on"] ELSE EmptyList
        no_explicit == \A i \in 1..n : ~Truthy(declared(i))
        depends(i) == IF no_explicit /\ i > 1
                      THEN List(<<ItemId(agents[i - 1], i - 2)>>)
                      ELSE declared(i)
        \* id_to_outputs.get(dep, ["result"]): the last item that carries the id wins
        outputs_of(dep) ==
            IF \E j \in 1..n : ItemId(agents[j], j - 1) = dep
            THEN ItemOutputs(agents[CHOOSE j \in 1..n :
                                 /\ ItemId(agents[j], j - 1) = dep
                                 /\ \A m \in 1..n : ItemId(agents[m], m - 1) = dep => m <= j])
            ELSE List(<<Str("result")>>)
        item(i) == Dict("id" :> ItemId(agents[i], i - 1)
                        @@ "name" :> Get(agents[i].v, "name", Str("agent_" \o IntStr(i - 1)))
                        @@ "params" :> Get(agents[i].v, "params", EmptyDict)
                        @@ "outputs" :> ItemOutputs(agents[i])
                        @@ "depends_on" :> depends(i)
                        @@ "inputs" :> List([d \in 1..Len(depends(i).v) |->
                                                Dict("from" :> depends(i).v[d]
                                                     @@ "output" :> outputs_of(depends(i).v[d]).v[1])]))
    IN  IF \E i \in 1..n : agents[i].t # "dict"
        THEN Raise("'str' object has no attribute 'get'")
        ELSE Ok(Dict("name" :> Str("duckagent_decision")
                     @@ "items" :> List([i \in 1..n |-> item(i)])))

-----------------------------------------------------------------------------
(* langgraph_adapter.py: build_runtime_graph *)

\* f"{name}" for a step name
NameText(name) == IF name.t = "str" THEN name.v ELSE "None"

\* NodeId without the position
NodeIdNoPosition(i, name) == "node_" \o NameText(name)

NodeId(i, name) == "node_" \o IntStr(i - 1) \o "_" \o NameText(name)

\* Gives Ok([graph_dict, runtime_nodes]) or raises on a step that is no mapping.  A
\* runtime node keeps the step its callable is bound to (make_local_fn(a)).
build_runtime_graph(decision) ==
    LET agents == OrElse(Get(decision.v, "agents", EmptyList), EmptyList).v
        n == Len(agents)
        name(i) == Get(agents[i].v, "name", None)
        meta(i) == OrElse(Get(agents[i].v, "params", EmptyDict), EmptyDict)
        nodes == [i \in 1..n |-> Dict("id" :> Str(NodeId(i, name(i))) @@ "name" :> name(i)
                                      @@ "meta" :> meta(i))]
        edges == [i \in 1..(IF n = 0 THEN 0 ELSE n - 1) |-> Dict("from" :> nodes[i].v["id"]
                                            @@ "to" :> nodes[i + 1].v["id"])]
    IN  IF \E i \in 1..n : agents[i].t # "dict"
        THEN Raise("'str' object has no attribute 'get'")
        ELSE [raised |-> FALSE,
              val |-> [graph_dict |-> Dict("nodes" :> List(nodes) @@ "edges" :> List(edges)
                                           @@ "metadata" :> Dict("decision" :>
                                                Dict("intent" :> Get(decision.v, "intent", None)))),
                       runtime_nodes |-> [i \in 1..n |->
                                             [id |-> NodeId(i, name(i)), name |-> name(i),
                                              agent |-> agents[i], meta |-> meta(i)]]]]

\* lines 147-152: the callable of a runtime node runs the local orchestrator on a
\* decision holding only that step, with the state the caller hands it as context
NodeFn(n, state) == execute(Dict("agents" :> List(<<n.agent>>)), state)

\* lines 284-294 and 221-231: the trace of one node call (the wall-clock fields
\* started_at, ended_at and duration are left out)
StatusOf(r) == IF r.raised THEN "error" ELSE "success"
OutputOf(r) == IF r.raised THEN Dict("error" :> r.val) ELSE r.val

TraceOf(n, state, r) ==
    Dict("id" :> Str(n.id)
         @@ "name" :> n.name
         @@ "meta" :> n.meta
         @@ "input" :> _redact(Dict("state" :> state @@ "params" :> n.meta))
         @@ "output" :> _redact(OutputOf(r))
         @@ "status" :> Str(StatusOf(r)))

-----------------------------------------------------------------------------
(* langgraph_adapter.py: send_to_langsmith *)

\* The environment of the adapter: which optional packages import and how their
\* clients behave, and whether LANGSMITH_API_KEY is set.
\*   sdk:       "absent" | "ok" (runs.create returns) | "raises" | "no_client"
\*   runtime:   "absent" | "graph" (langgraph.Graph exists)
\*   langsmith: "absent" | "ok" (runs.create returns) | "raises"
DefaultEnv == [sdk |-> "absent", runtime |-> "absent", langsmith |-> "absent",
               api_key |-> FALSE]

\* lines 340-346: the payload handed to the client
RunPayload(graph) ==
    The({LET decision_meta == Get(Get(g.v, "metadata", EmptyDict).v, "decision", EmptyDict)
             name == OrElse(Get(decision_meta.v, "intent", None), Str("duckagent_run"))
             nodes == Get(g.v, "nodes", EmptyList).v
             steps == [k \in 1..Len(nodes) |->
                          Dict("id" :> Get(nodes[k].v, "id", None)
                               @@ "name" :> Get(nodes[k].v, "name", None)
                               @@ "meta" :> Get(nodes[k].v, "meta", EmptyDict))]
         IN  Dict("name" :> name @@ "project" :> Str("duckagent") @@ "steps" :> List(steps)
                  @@ "graph" :> _redact(g) @@ "run_type" :> Str("chain")) :
         g \in {graph}})

\* Gives the outcome and `sent`, the payloads handed to the client during the call.
send_to_langsmith(graph, e) ==
    IF e.langsmith = "absent"
    THEN [raised |-> TRUE, val |-> Str("LangSmith SDK (langsmith) is not installed"),
          sent |-> <<>>]
    ELSE IF ~e.api_key
    THEN [raised |-> TRUE, val |-> Str("Missing LANGSMITH_API_KEY environment variable"),
          sent |-> <<>>]
    ELSE IF e.langsmith = "raises"
    THEN [raised |-> TRUE, val |-> Str("langsmith client.runs.create failed"),
          sent |-> <<RunPayload(graph)>>]
    ELSE [raised |-> FALSE,
          val |-> Dict("run_id" :> RunPayload(graph).v["name"] @@ "run_url" :> Str("run_url")),
          sent |-> <<RunPayload(graph)>>]

-----------------------------------------------------------------------------
(* The inputs of a run *)

Step(name, params) == Dict("name" :> Str(name) @@ "params" :> params)

\* params with a secret-keyed entry and a secret-shaped string under a plain key
SecretParams == Dict("password" :> Str("hunter2") @@ "note" :> Str("sk-TESTSECRET"))

\* The steps of the model's Decisions: five registered capabilities (Validator, a
\* stub that reads and writes nothing, is left out), SQLGenerator carrying secret
\* params as in tests/test_langgraph_materializer.py, and two unregistered names.
Steps == {Step(n, EmptyDict) : n \in {"Planner", "SQLRunner", "AnalysisAgent", "Summarizer",
                                      "A", "B"}}
         \cup {Step("SQLGenerator", SecretParams)}

SeqsUpTo(S, n) == UNION {[1..m -> S] : m \in 0..n}

Decisions == {Dict("intent" :> Str("test_run") @@ "agents" :> List(q)) :
                 q \in SeqsUpTo(Steps, MaxSteps)}

Context(conn, extra) == Dict("conn" :> conn @@ "prompt" :> Str("test") @@ "llm" :> None @@ extra)

\* no handle, a handle with table t1, a handle with no table; without a dataframe, with
\* the caller's dataframe, with a dataframe that has no columns
Contexts ==
    {Context(c, <<>>) : c \in {None, Obj("conn_t1"), Obj("conn_empty")}}
    \cup {Context(c, "full_df" :> Obj("ctx_df")) : c \in {None, Obj("conn_t1")}}
    \cup {Context(None, "full_df" :> Obj("empty_df"))}

RunInit(decisions, contexts, envs, paths) ==
    /\ dec \in decisions
    /\ ctx \in contexts
    /\ env \in envs
    /\ path \in paths
    /\ pc = CASE path = "orchestrator" -> "exec_start"
              [] path = "upload" -> "upload_start"
              [] path = "agent" -> "idle"
              [] OTHER -> "graph_start"
    /\ idx = 1
    /\ run_state = <<>>
    /\ run_results = <<>>
    /\ traces = <<>>
    /\ local_results = <<>>
    /\ stopped = FALSE
    /\ rt_err = FALSE
    /\ failed = {}
    /\ calls = <<>>
    /\ ret = None
    /\ submitted = <<>>

RedactIdle == robj = None /\ rout = None /\ rdone = FALSE

PlannerIdle ==
    /\ pl_intent = None /\ pl_ctx = None /\ pl_llm = None /\ pl_pc = "idle"
    /\ pl_reply = None /\ pl_calls = 0 /\ pl_ret = None

RouterIdle == rt_prompt = <<>> /\ rt_mode = None /\ rt_ret = None

MappingIdle == mp_agents = <<>> /\ mp_intent = None /\ mp_payload = None /\ mp_graph = <<>>

AgentIdle ==
    /\ agent = None /\ ag_prompt = "" /\ ag_mode = None /\ ag_data = None
    /\ ag_pc = "idle" /\ ag_decision = None /\ ag_via = "none" /\ ag_ret = None

NSteps == Len(Agents(dec))

-----------------------------------------------------------------------------
(* orchestrator.py: execute, one action per loop iteration *)

\* lines 199-204
ExecStart ==
    /\ pc = "exec_start"
    /\ run_state' = SeedState(ctx)
    /\ pc' = "exec_loop"
    /\ UNCHANGED <<dec, ctx, env, path, idx, run_results, traces, local_results, stopped,
                   rt_err, failed, calls, ret, submitted, redactVars, frontVars>>

\* lines 247-273
ExecNode ==
    /\ pc = "exec_loop"
    /\ idx <= NSteps
    /\ \E it \in {ExecIteration(Agents(dec)[idx], run_state, run_results)} :
          /\ calls' = Append(calls, [via |-> "execute", step |-> idx,
                                     agent |-> Agents(dec)[idx], known |-> it.known,
                                     raised |-> it.raised, seen |-> run_state,
                                     after |-> it.state, out |-> it.out])
          /\ run_state' = it.state
          /\ run_results' = it.results
          /\ IF it.raised
             THEN pc' = "raised" /\ ret' = it.out /\ idx' = idx
             ELSE pc' = pc /\ ret' = ret /\ idx' = idx + 1
    /\ UNCHANGED <<dec, ctx, env, path, traces, local_results, stopped, rt_err,
                   failed, submitted, redactVars, frontVars>>

\* lines 275-285
ExecReturn ==
    /\ pc = "exec_loop"
    /\ idx > NSteps
    /\ ret' = TopResult(dec, run_state, run_results)
    /\ pc' = "done"
    /\ UNCHANGED <<dec, ctx, env, path, idx, run_state, run_results, traces, local_results,
                   stopped, rt_err, failed, calls, submitted, redactVars, frontVars>>

-----------------------------------------------------------------------------
(* langgraph_adapter.py: run_decision_graph *)

\* RuntimeNodes walked from the last node to the first
RuntimeNodesReversed ==
    LET nodes == build_runtime_graph(dec).val.runtime_nodes IN
    [k \in 1..Len(nodes) |-> nodes[Len(nodes) + 1 - k]]

RuntimeNodes == build_runtime_graph(dec).val.runtime_nodes

\* lines 253-255 and 301-303
UploadGraph ==
    Dict(build_runtime_graph(dec).val.graph_dict.v @@ "node_traces" :> List(traces))

\* lines 256-261 and 304-308: the best-effort upload; what it raises is swallowed
UploadSent == IF env.api_key THEN send_to_langsmith(UploadGraph, env).sent ELSE <<>>

\* lines 172-202: materialize, try the SDK client, then choose the next strategy
GraphStart ==
    /\ pc = "graph_start"
    /\ \E m \in {build_runtime_graph(dec)} :
       LET sdk_returns == env.sdk = "ok" /\ ~build_run_payload(dec).raised
           sdk_raises == env.sdk = "raises" \/ (env.sdk # "absent"
                                                 /\ build_run_payload(dec).raised)
       IN  /\ failed' = IF ~m.raised /\ sdk_raises THEN {"sdk"} ELSE {}
           /\ IF m.raised
              THEN pc' = "raised" /\ ret' = m.val
              ELSE IF sdk_returns
              THEN pc' = "done" /\ ret' = Dict("langgraph_result" :> Obj("created"))
              ELSE IF env.runtime = "graph"
              THEN pc' = "graph_runtime" /\ ret' = ret
              ELSE pc' = "graph_local" /\ ret' = ret
    /\ UNCHANGED <<dec, ctx, env, path, idx, run_state, run_results, traces, local_results,
                   stopped, rt_err, calls, submitted, redactVars, frontVars>>

\* lines 211-235: the runtime calls the traced callable of the next node of the chain
RuntimeNode ==
    /\ pc = "graph_runtime"
    /\ ~rt_err
    /\ idx <= Len(RuntimeNodes)
    /\ \E n \in {RuntimeNodes[idx]} : \E r \in {NodeFn(n, ctx)} :
           /\ traces' = Append(traces, TraceOf(n, ctx, r))
           /\ rt_err' = r.raised
           /\ calls' = Append(calls, [via |-> "runtime", step |-> idx, agent |-> n.agent,
                                      known |-> TRUE,
                                      raised |-> r.raised, seen |-> ctx.v,
                                      after |-> ctx.v, out |-> OutputOf(r)])
    /\ idx' = idx + 1
    /\ UNCHANGED <<dec, ctx, env, path, pc, run_state, run_results, local_results, stopped,
                   failed, ret, submitted, redactVars, frontVars>>

\* RuntimeRaise with the runtime's error leaving run_decision_graph
RuntimeRaisePropagates ==
    /\ pc = "graph_runtime"
    /\ pc' = "raised"
    /\ ret' = Str("runtime failed")
    /\ failed' = failed \cup {"runtime"}
    /\ UNCHANGED <<dec, ctx, env, path, idx, run_state, run_results, traces, local_results,
                   stopped, rt_err, calls, submitted, redactVars, frontVars>>

\* lines 264-269: g.run (or the wiring before it) raises, by a node's re-raised error or
\* for the runtime's own reasons; the local path starts over from the first node
RuntimeRaise ==
    /\ pc = "graph_runtime"
    /\ pc' = "graph_local"
    /\ idx' = 1
    /\ rt_err' = FALSE
    /\ failed' = failed \cup {"runtime"}
    /\ UNCHANGED <<dec, ctx, env, path, run_state, run_results, traces, local_results,
                   stopped, calls, ret, submitted, redactVars, frontVars>>

\* lines 251-263: g.run returns after the last node
RuntimeReturn ==
    /\ pc = "graph_runtime"
    /\ ~rt_err
    /\ idx > Len(RuntimeNodes)
    /\ submitted' = submitted \o UploadSent
    /\ ret' = Dict("langgraph_result" :> Obj("run_result") @@ "node_traces" :> List(traces))
    /\ pc' = "done"
    /\ UNCHANGED <<dec, ctx, env, path, idx, run_state, run_results, traces, local_results,
                   stopped, rt_err, failed, calls, redactVars, frontVars>>

\* LocalNode without the break on a node error
LocalNodeNoBreak ==
    /\ pc = "graph_local"
    /\ ~stopped
    /\ idx <= Len(RuntimeNodes)
    /\ \E n \in {RuntimeNodes[idx]} : \E r \in {NodeFn(n, ctx)} :
           /\ traces' = Append(traces, TraceOf(n, ctx, r))
           /\ local_results' = Put(local_results, n.id,
                                   Dict("status" :> Str(StatusOf(r)) @@ "output" :> OutputOf(r)))
           /\ stopped' = FALSE
           /\ calls' = Append(calls, [via |-> "local", step |-> idx, agent |-> n.agent,
                                      known |-> TRUE,
                                      raised |-> r.raised, seen |-> ctx.v,
                                      after |-> ctx.v, out |-> OutputOf(r)])
    /\ idx' = idx + 1
    /\ UNCHANGED <<dec, ctx, env, path, pc, run_state, run_results, rt_err, failed, ret,
                   submitted, redactVars, frontVars>>

\* lines 271-299: one iteration of the local loop (local_state is a copy of ctx
\* that nothing writes to)
LocalNode ==
    /\ pc = "graph_local"
    /\ ~stopped
    /\ idx <= Len(RuntimeNodes)
    /\ \E n \in {RuntimeNodes[idx]} : \E r \in {NodeFn(n, ctx)} :
           /\ traces' = Append(traces, TraceOf(n, ctx, r))
           /\ local_results' = Put(local_results, n.id,
                                   Dict("status" :> Str(StatusOf(r)) @@ "output" :> OutputOf(r)))
           /\ stopped' = r.raised
           /\ calls' = Append(calls, [via |-> "local", step |-> idx, agent |-> n.agent,
                                      known |-> TRUE,
                                      raised |-> r.raised, seen |-> ctx.v,
                                      after |-> ctx.v, out |-> OutputOf(r)])
    /\ idx' = idx + 1
    /\ UNCHANGED <<dec, ctx, env, path, pc, run_state, run_results, rt_err, failed, ret,
                   submitted, redactVars, frontVars>>

\* GraphFinish with a failed upload leaving run_decision_graph
GraphFinishUploadRaises ==
    /\ pc = "graph_local"
    /\ stopped \/ idx > Len(RuntimeNodes)
    /\ submitted' = submitted \o UploadSent
    /\ IF env.api_key /\ send_to_langsmith(UploadGraph, env).raised
       THEN ret' = send_to_langsmith(UploadGraph, env).val /\ pc' = "raised"
       ELSE /\ ret' = Dict("execution" :> Dict("status" :> Str("completed")
                                               @@ "results" :> Dict(local_results))
                           @@ "node_traces" :> List(traces))
            /\ pc' = "done"
    /\ UNCHANGED <<dec, ctx, env, path, idx, run_state, run_results, traces, local_results,
                   stopped, rt_err, failed, calls, redactVars, frontVars>>

\* lines 301-310
GraphFinish ==
    /\ pc = "graph_local"
    /\ stopped \/ idx > Len(RuntimeNodes)
    /\ submitted' = submitted \o UploadSent
    /\ ret' = Dict("execution" :> Dict("status" :> Str("completed")
                                       @@ "results" :> Dict(local_results))
                   @@ "node_traces" :> List(traces))
    /\ pc' = "done"
    /\ UNCHANGED <<dec, ctx, env, path, idx, run_state, run_results, traces, local_results,
                   stopped, rt_err, failed, calls, redactVars, frontVars>>

-----------------------------------------------------------------------------
(* Specifications *)

\* Spec: no remote runtime, SDK or tracing credential (the default configuration);
\* the caller runs a Decision by execute or by run_decision_graph.
Init ==
    /\ RunInit(Decisions, Contexts, {DefaultEnv}, {"orchestrator", "adapter"})
    /\ RedactIdle /\ PlannerIdle /\ RouterIdle /\ MappingIdle /\ AgentIdle

Next == ExecStart \/ ExecNode \/ ExecReturn \/ GraphStart \/ LocalNode \/ GraphFinish

Spec == Init /\ [][Next]_vars

\* SpecRemote: run_decision_graph in every environment: with or without the SDK
\* client, the runtime and the tracing credential, each working or failing.
Envs == {[sdk |-> s, runtime |-> r, langsmith |-> l.pkg, api_key |-> l.key] :
            s \in {"absent", "ok", "raises", "no_client"},
            r \in {"absent", "graph"},
            l \in {[pkg |-> "absent", key |-> FALSE], [pkg |-> "absent", key |-> TRUE],
                   [pkg |-> "ok", key |-> TRUE], [pkg |-> "raises", key |-> TRUE]}}

RemoteSteps == {Step("Planner", EmptyDict), Step("AnalysisAgent", EmptyDict),
                Step("SQLGenerator", SecretParams)}

RemoteDecisions == {Dict("intent" :> Str("test_run") @@ "agents" :> List(q)) :
                       q \in SeqsUpTo(RemoteSteps, MaxSteps)}

RemoteContexts == {Context(None, <<>>), Context(None, "full_df" :> Obj("empty_df"))}

InitRemote ==
    /\ RunInit(RemoteDecisions, RemoteContexts, Envs, {"adapter"})
    /\ RedactIdle /\ PlannerIdle /\ RouterIdle /\ MappingIdle /\ AgentIdle

NextRemote ==
    GraphStart \/ RuntimeNode \/ RuntimeRaise \/ RuntimeReturn \/ LocalNode \/ GraphFinish

SpecRemote == InitRemote /\ [][NextRemote]_vars

\* SpecUpload: the tracing upload, called directly on the materialized graph of a
\* Decision or attempted by run_decision_graph at the end of a run, with the langsmith
\* package absent, working or failing and the credential set or not.

\* lines 313-367: a caller hands the graph to send_to_langsmith; every raise of the
\* function is a LangGraphAdapterError carrying the message
SendToLangsmith ==
    /\ pc = "upload_start"
    /\ \E r \in {send_to_langsmith(build_runtime_graph(dec).val.graph_dict, env)} :
          /\ submitted' = submitted \o r.sent
          /\ ret' = r.val
          /\ pc' = IF r.raised THEN "raised" ELSE "done"
    /\ UNCHANGED <<dec, ctx, env, path, idx, run_state, run_results, traces, local_results,
                   stopped, rt_err, failed, calls, redactVars, frontVars>>

UploadEnvs == {[sdk |-> "absent", runtime |-> r, langsmith |-> l, api_key |-> k] :
                  r \in {"absent", "graph"}, l \in {"absent", "ok", "raises"},
                  k \in BOOLEAN}

InitUpload ==
    /\ RunInit(RemoteDecisions, RemoteContexts, UploadEnvs, {"adapter", "upload"})
    /\ RedactIdle /\ PlannerIdle /\ RouterIdle /\ MappingIdle /\ AgentIdle

NextUpload ==
    \/ SendToLangsmith
    \/ GraphStart \/ RuntimeNode \/ RuntimeRaise \/ RuntimeReturn \/ LocalNode \/ GraphFinish

SpecUpload == InitUpload /\ [][NextUpload]_vars

-----------------------------------------------------------------------------
(* _redact as a state machine: a caller builds a nested value, then calls  *)
(* _redact on it.                                                          *)

RedactKeys == {"a", "api_key", "API_KEY", "nested", "password", "Token", "monkey", "name"}

RedactLeaves ==
    {Str(s) : s \in {"normal", "hunter2", "sk-FOO12345", "sk-short",
                     "see sk-ABCDEFGH1 here", "sk-abcd efgh"}}
    \cup {Num(42), None, Bool(TRUE), Obj("conn")}

RECURSIVE Depth(_)
Depth(x) ==
    IF x.t = "dict"
    THEN IF DOMAIN x.v = {} THEN 1
         ELSE 1 + (CHOOSE d \in {Depth(x.v[k]) : k \in DOMAIN x.v} :
                       \A e \in {Depth(x.v[k]) : k \in DOMAIN x.v} : e <= d)
    ELSE IF x.t = "list"
    THEN IF Len(x.v) = 0 THEN 1
         ELSE 1 + (CHOOSE d \in {Depth(x.v[i]) : i \in 1..Len(x.v)} :
                       \A e \in {Depth(x.v[i]) : i \in 1..Len(x.v)} : e <= d)
    ELSE 0

RunIdle == RunInit({None}, {None}, {DefaultEnv}, {"none"})

RedactInit ==
    /\ robj \in RedactLeaves \cup {EmptyDict, EmptyList}
    /\ rout = None
    /\ rdone = FALSE
    /\ RunIdle /\ PlannerIdle /\ RouterIdle /\ MappingIdle /\ AgentIdle

\* the caller puts the value under key k of a new mapping, alone or beside a sibling entry
WrapInDict ==
    /\ ~rdone
    /\ Depth(robj) < MaxDepth
    /\ \E k \in RedactKeys :
          \/ robj' = Dict(k :> robj)
          \/ \E k2 \in {"a", "api_key"} \ {k} :
                robj' = Dict(k :> robj @@ k2 :> Str("sk-FOO12345"))
    /\ UNCHANGED <<rout, rdone, runVars, frontVars>>

\* the caller puts the value in a new list, alone or beside another element
WrapInList ==
    /\ ~rdone
    /\ Depth(robj) < MaxDepth
    /\ \/ robj' = List(<<robj>>)
       \/ robj' = List(<<Str("sk-FOO12345"), robj>>)
       \/ robj' = List(<<robj, Str("normal")>>)
    /\ UNCHANGED <<rout, rdone, runVars, frontVars>>

CallRedact ==
    /\ ~rdone
    /\ rout' = _redact(robj)
    /\ rdone' = TRUE
    /\ UNCHANGED <<robj, runVars, frontVars>>

RedactNext == WrapInDict \/ WrapInList \/ CallRedact

SpecRedact == RedactInit /\ [][RedactNext]_vars

-----------------------------------------------------------------------------
(* planner.py: Planner *)

\* lines 16-23
DEFAULT_AGENT_NAMES ==
    <<"Planner", "SQLGenerator", "Validator", "SQLRunner", "AnalysisAgent", "Summarizer">>

\* HasData looking at the dataframe only
HasDataDfOnly(context) == Get(context.v, "full_df", None) # None

\* lines 39-41 and 118-120: the context carries data
HasData(context) ==
    LET full_df == Get(context.v, "full_df", None)
        rows_preview == Get(context.v, "rows_preview", None)
    IN  full_df # None \/ (Truthy(rows_preview) /\ Len(rows_preview.v) > 0)

\* _default_plan with the sql branch missing (sql falls to the two-step chain)
DefaultPlanNoSqlBranch(intent, context) ==
    LET base == "intent" :> intent @@ "agents" :> EmptyList @@ "hints" :> EmptyDict
                @@ "reason" :> Str("planner default mapping")
        chain == IF intent = Str("analyze")
                 THEN <<Step("Planner", EmptyDict),
                        Step("SQLGenerator", Dict("sample_only" :> Bool(TRUE))),
                        Step("Validator", Dict("sample_mode" :> Bool(TRUE))),
                        Step("SQLRunner", Dict("max_rows" :> Num(1000))),
                        Step("AnalysisAgent", Dict("analysis_mode" :> Str("regression"))),
                        Step("Summarizer", Dict("model" :> Str("default")))>>
                 ELSE <<Step("Planner", EmptyDict), Step("Summarizer", EmptyDict)>>
    IN  IF HasData(context)
        THEN Dict(("agents" :> List(<<Step("Summarizer", EmptyDict)>>)
                   @@ "hints" :> Dict("use_existing_df" :> Bool(TRUE))
                   @@ "reason" :> Str("context contains data; prefer summarizer")
                   @@ "cost_estimate" :> Dict("llm_tokens" :> Num(20)
                                              @@ "scan_bytes_est" :> Num(0)))
                  @@ base)
        ELSE Dict(("agents" :> List(chain)
                   @@ "hints" :> (IF intent = Str("analyze")
                                  THEN Dict("confirm_full_run" :> Bool(TRUE)) ELSE EmptyDict)
                   @@ "cost_estimate" :> Dict("llm_tokens" :> Num(100)
                                              @@ "scan_bytes_est" :> Num(0)))
                  @@ base)

\* lines 31-78
_default_plan(intent, context) ==
    LET base == "intent" :> intent @@ "agents" :> EmptyList @@ "hints" :> EmptyDict
                @@ "reason" :> Str("planner default mapping")
        chain == IF intent = Str("analyze")
                 THEN <<Step("Planner", EmptyDict),
                        Step("SQLGenerator", Dict("sample_only" :> Bool(TRUE))),
                        Step("Validator", Dict("sample_mode" :> Bool(TRUE))),
                        Step("SQLRunner", Dict("max_rows" :> Num(1000))),
                        Step("AnalysisAgent", Dict("analysis_mode" :> Str("regression"))),
                        Step("Summarizer", Dict("model" :> Str("default")))>>
                 ELSE IF intent = Str("sql")
                 THEN <<Step("Planner", EmptyDict),
                        Step("SQLGenerator", Dict("sample_only" :> Bool(TRUE))),
                        Step("Validator", EmptyDict),
                        Step("SQLRunner", Dict("max_rows" :> Num(500))),
                        Step("Summarizer", EmptyDict)>>
                 ELSE IF intent = Str("summarize")
                 THEN <<Step("Planner", EmptyDict), Step("Summarizer", EmptyDict)>>
                 ELSE <<Step("Planner", EmptyDict), Step("Summarizer", EmptyDict)>>
    IN  IF HasData(context)
        THEN Dict(("agents" :> List(<<Step("Summarizer", EmptyDict)>>)
                   @@ "hints" :> Dict("use_existing_df" :> Bool(TRUE))
                   @@ "reason" :> Str("context contains data; prefer summarizer")
                   @@ "cost_estimate" :> Dict("llm_tokens" :> Num(20)
                                              @@ "scan_bytes_est" :> Num(0)))
                  @@ base)
        ELSE Dict(("agents" :> List(chain)
                   @@ "hints" :> (IF intent = Str("analyze")
                                  THEN Dict("confirm_full_run" :> Bool(TRUE)) ELSE EmptyDict)
                   @@ "cost_estimate" :> Dict("llm_tokens" :> Num(100)
                                              @@ "scan_bytes_est" :> Num(0)))
                  @@ base)

\* line 105: the value types kept in params (the model has no float)
IsJsonType(x) == x.t \in {"str", "int", "bool", "none", "list", "dict"}

\* ValidateAgent without the allow-list test of the name
ValidateAgentAnyName(a) ==
    IF a.t # "dict" THEN Raise("each agent must be an object")
    ELSE The({IF params.t # "dict" THEN Raise("agent.params must be an object/dict")
              ELSE Ok(Dict("name" :> Get(a.v, "name", None)
                           @@ "params" :> Dict([k \in {j \in DOMAIN params.v :
                                                          IsJsonType(params.v[j])}
                                                |-> params.v[k]]))) :
              params \in {OrElse(Get(a.v, "params", EmptyDict), EmptyDict)}})

\* lines 94-107: one entry of agents, validated and normalized (the name is left out
\* of the message of the ValueError, which is only logged)
ValidateAgent(a) ==
    IF a.t # "dict" THEN Raise("each agent must be an object")
    ELSE IF ~(\E i \in 1..Len(DEFAULT_AGENT_NAMES) :
                 Get(a.v, "name", None) = Str(DEFAULT_AGENT_NAMES[i]))
    THEN Raise("agent name is not allowed")
    ELSE The({IF params.t # "dict" THEN Raise("agent.params must be an object/dict")
              ELSE Ok(Dict("name" :> Get(a.v, "name", None)
                           @@ "params" :> Dict([k \in {j \in DOMAIN params.v :
                                                          IsJsonType(params.v[j])}
                                                |-> params.v[k]]))) :
              params \in {OrElse(Get(a.v, "params", EmptyDict), EmptyDict)}})

\* lines 80-108: Ok(normalized), or the first ValueError
_validate_decision(obj) ==
    IF obj.t # "dict" THEN Raise("decision must be a JSON object")
    ELSE The({IF agents.t # "list" THEN Raise("decision.agents must be a list")
              ELSE LET bad == {i \in 1..Len(agents.v) : ValidateAgent(agents.v[i]).raised} IN
                   IF bad # {}
                   THEN ValidateAgent(agents.v[CHOOSE i \in bad : \A j \in bad : i <= j])
                   ELSE Ok(Dict("intent" :> Get(obj.v, "intent", None)
                                @@ "agents" :> List([i \in 1..Len(agents.v) |->
                                                        ValidateAgent(agents.v[i]).val])
                                @@ "hints" :> Get(obj.v, "hints", EmptyDict))) :
              agents \in {Get(obj.v, "agents", None)}})

\* The backtick cannot be written in a string of this module: the character is named.
Backtick == "BACKTICK"
Fence == <<Backtick, Backtick, Backtick>>

Whitespace == {" ", "\n", "\t"}

\* str.strip() on a character sequence
RECURSIVE Strip(_)
Strip(cs) ==
    IF cs = <<>> THEN cs
    ELSE IF cs[1] \in Whitespace THEN Strip(Tail(cs))
    ELSE IF cs[Len(cs)] \in Whitespace THEN Strip(SubSeq(cs, 1, Len(cs) - 1))
    ELSE cs

StartsWith(cs, p) == Len(cs) >= Len(p) /\ SubSeq(cs, 1, Len(p)) = p
EndsWith(cs, p) == Len(cs) >= Len(p) /\ SubSeq(cs, Len(cs) - Len(p) + 1, Len(cs)) = p

\* line 146, "\n".join(text.split("\n")[1:-1]): the text without its first and its
\* last line, which is what lies between the first and the last newline
DropFenceLines(cs) ==
    LET nl == {i \in 1..Len(cs) : cs[i] = "\n"} IN
    IF Cardinality(nl) < 2 THEN <<>>
    ELSE SubSeq(cs, (CHOOSE i \in nl : \A j \in nl : i <= j) + 1,
                    (CHOOSE i \in nl : \A j \in nl : j <= i) - 1)

\* lines 148-150: the text from its first "{" on (all of it when there is none)
FromFirstBrace(cs) ==
    LET at == {i \in 1..Len(cs) : cs[i] = "{"} IN
    IF at = {} THEN cs ELSE SubSeq(cs, CHOOSE i \in at : \A j \in at : i <= j, Len(cs))

\* json.loads on the JSON documents of the model: the value of each, by its text
JsonDocuments ==
       "{\"intent\": \"analyze\", \"agents\": [{\"name\": \"SQLGenerator\", \"params\": {\"max_rows\": 50}}, {\"name\": \"Summarizer\", \"params\": {}}]}"
          :> Dict("intent" :> Str("analyze")
                  @@ "agents" :> List(<<Step("SQLGenerator", Dict("max_rows" :> Num(50))),
                                        Step("Summarizer", EmptyDict)>>))
    @@ "{\"agents\": [{\"name\": \"Summarizer\"}]}"
          :> Dict("agents" :> List(<<Dict("name" :> Str("Summarizer"))>>))
    @@ "{\"intent\": \"\", \"agents\": []}"
          :> Dict("intent" :> Str("") @@ "agents" :> EmptyList)
    @@ "{\"intent\": \"sql\"}"
          :> Dict("intent" :> Str("sql"))
    @@ "{\"agents\": \"Summarizer\"}"
          :> Dict("agents" :> Str("Summarizer"))
    @@ "{\"agents\": [{\"name\": \"Hacker\", \"params\": {}}]}"
          :> Dict("agents" :> List(<<Step("Hacker", EmptyDict)>>))
    @@ "{\"agents\": [{\"name\": \"Summarizer\", \"params\": [1]}]}"
          :> Dict("agents" :> List(<<Step("Summarizer", List(<<Num(1)>>))>>))
    @@ "{\"agents\": [{\"name\": \"Summarizer\", \"params\": []}]}"
          :> Dict("agents" :> List(<<Step("Summarizer", EmptyList)>>))
    @@ "{\"agents\": [\"Summarizer\"]}"
          :> Dict("agents" :> List(<<Str("Summarizer")>>))
    @@ "[\"Summarizer\"]"
          :> List(<<Str("Summarizer")>>)
    @@ "{\"agents\": [{\"name\": \"Summarizer\", \"params\": null}]}"
          :> Dict("agents" :> List(<<Step("Summarizer", None)>>))
    @@ "{\"agents\": [{\"params\": {}}]}"
          :> Dict("agents" :> List(<<Dict("params" :> EmptyDict)>>))

\* json.loads(text): the value of a JSON document, a JSONDecodeError on any other text
JsonLoads(cs) ==
    IF \E d \in DOMAIN JsonDocuments : Chars(d) = cs
    THEN Ok(JsonDocuments[CHOOSE d \in DOMAIN JsonDocuments : Chars(d) = cs])
    ELSE Raise("invalid JSON")

\* lines 142-151: from the completion to the parsed object
ParseCompletion(raw) ==
    The({JsonLoads(FromFirstBrace(IF StartsWith(text, Fence) /\ EndsWith(text, Fence)
                                  THEN DropFenceLines(text) ELSE text)) :
         text \in {Strip(raw)}})

\* lines 151-159 after llm.generate: the Decision returned for its outcome
PlanFromReply(reply, intent, context) ==
    IF reply.raised THEN _default_plan(intent, context)
    ELSE The({IF obj.raised THEN _default_plan(intent, context)
              ELSE The({IF validated.raised THEN _default_plan(intent, context)
                        ELSE IF ~Truthy(Get(validated.val.v, "intent", None))
                        THEN Dict(Put(validated.val.v, "intent", intent))
                        ELSE validated.val :
                        validated \in {_validate_decision(obj.val)}}) :
              obj \in {ParseCompletion(reply.text)}})

-----------------------------------------------------------------------------
(* The callers of plan_for_intent and the LLM behind it *)

Intents == {Str(s) : s \in {"analyze", "sql", "summarize", "unknown", "report"}}

\* without full_df, with full_df None, with the caller's dataframe; without
\* rows_preview, with an empty one, with one row
PlannerContexts ==
    {Dict(f @@ r) :
        f \in {<<>>, "full_df" :> None, "full_df" :> Obj("ctx_df")},
        r \in {<<>>, "rows_preview" :> EmptyList,
               "rows_preview" :> List(<<Dict("col1" :> Num(1))>>)}}

\* what a completion says: a JSON document of JsonDocuments, or prose
Bodies == DOMAIN JsonDocuments \cup {"I think we should do X and Y"}

\* how the LLM wraps it: as it is, after commentary, in a fenced block, between
\* whitespace, in a one-line fence, before trailing prose
Wrappings == {"plain", "commentary", "fenced", "padded", "one_line_fence", "trailing"}

Completion(body, wrap) ==
    CASE wrap = "plain"          -> Chars(body)
      [] wrap = "commentary"     -> Chars("Here is the plan: ") \o Chars(body)
      [] wrap = "fenced"         -> Fence \o Chars("json") \o <<"\n">> \o Chars(body)
                                    \o <<"\n">> \o Fence
      [] wrap = "padded"         -> <<" ">> \o Chars(body) \o <<"\n">>
      [] wrap = "one_line_fence" -> Fence \o Chars(body) \o Fence
      [] wrap = "trailing"       -> Chars(body) \o Chars(" ok")

PlannerInit ==
    /\ pl_intent \in Intents
    /\ pl_ctx \in PlannerContexts
    /\ pl_llm \in {None, Obj("mock_llm")}
    /\ pl_pc = "start"
    /\ pl_reply = None
    /\ pl_calls = 0
    /\ pl_ret = None
    /\ RunIdle /\ RedactIdle /\ RouterIdle /\ MappingIdle /\ AgentIdle

\* lines 117-125: the short-circuit on data, then the plan without an LLM
PlanStart ==
    /\ pl_pc = "start"
    /\ IF HasData(pl_ctx) \/ ~Truthy(pl_llm)
       THEN pl_ret' = _default_plan(pl_intent, pl_ctx) /\ pl_pc' = "done"
       ELSE pl_ret' = pl_ret /\ pl_pc' = "llm"
    /\ UNCHANGED <<pl_intent, pl_ctx, pl_llm, pl_reply, pl_calls, runVars, redactVars,
                   routerVars, mappingVars, agentVars>>

\* line 140: llm.generate returns a completion or raises (the body and the wrapping of
\* the completion are kept beside its text)
LlmReply ==
    /\ pl_pc = "llm"
    /\ \/ pl_reply' = [raised |-> TRUE, text |-> <<>>, body |-> "", wrap |-> ""]
       \/ \E b \in Bodies, w \in Wrappings :
             pl_reply' = [raised |-> FALSE, text |-> Completion(b, w), body |-> b, wrap |-> w]
    /\ pl_calls' = pl_calls + 1
    /\ pl_pc' = "reply"
    /\ UNCHANGED <<pl_intent, pl_ctx, pl_llm, pl_ret, runVars, redactVars, routerVars,
                   mappingVars, agentVars>>

\* lines 141-159
PlanFinish ==
    /\ pl_pc = "reply"
    /\ pl_ret' = PlanFromReply(pl_reply, pl_intent, pl_ctx)
    /\ pl_pc' = "done"
    /\ UNCHANGED <<pl_intent, pl_ctx, pl_llm, pl_reply, pl_calls, runVars, redactVars,
                   routerVars, mappingVars, agentVars>>

PlannerNext == PlanStart \/ LlmReply \/ PlanFinish

SpecPlanner == PlannerInit /\ [][PlannerNext]_vars

-----------------------------------------------------------------------------
(* router.py: Router.detect_intent *)

\* a float, by its decimal text
Float(s) == [t |-> "float", v |-> s]

\* the regex class \w
WordChar(c) ==
    \/ c \in DOMAIN UpperToLower
    \/ c \in {UpperToLower[u] : u \in DOMAIN UpperToLower}
    \/ c \in Digits
    \/ c = "_"

\* the regex assertion \b between cs[p] and cs[p + 1] (p = 0 and p = Len(cs) are the
\* ends of the text)
WordBoundary(cs, p) ==
    (p >= 1 /\ WordChar(cs[p])) # (p + 1 <= Len(cs) /\ WordChar(cs[p + 1]))

\* Search without the \b assertions
SearchNoBoundary(cs, alternatives) ==
    \E w \in alternatives : \E i \in 1..(Len(cs) - Len(w) + 1) :
        SubSeq(Lower(cs), i, i + Len(w) - 1) = Chars(w)

\* re.compile(r"\b(a|b|...)\b", re.I).search(cs)
Search(cs, alternatives) ==
    \E w \in alternatives : \E i \in 1..(Len(cs) - Len(w) + 1) :
        /\ SubSeq(Lower(cs), i, i + Len(w) - 1) = Chars(w)
        /\ WordBoundary(cs, i - 1)
        /\ WordBoundary(cs, i + Len(w) - 1)

\* lines 24-26
analyze_pattern ==
    {"analy", "analysis", "analyze", "regress", "correlat", "drivers", "model", "predict"}
summarize_pattern == {"summary", "summarize", "summarise", "describe", "overview", "insight"}
sql_pattern ==
    {"count", "how many", "top", "sum", "avg", "group by", "order by", "select", "min", "max"}

StrList(names) == List([i \in 1..Len(names) |-> Str(names[i])])

\* lines 18-55
detect_intent(prompt, user_mode) ==
    The({IF Truthy(user_mode)
         THEN Dict("intent" :> user_mode @@ "confidence" :> Float("0.95")
                   @@ "agents" :> EmptyList @@ "hints" :> EmptyDict)
         ELSE IF Search(text, analyze_pattern)
         THEN Dict("intent" :> Str("analyze") @@ "confidence" :> Float("0.92")
                   @@ "agents" :> StrList(<<"Planner", "SQLGenerator", "Validator",
                                            "SQLRunner", "AnalysisAgent", "Summarizer">>)
                   @@ "hints" :> Dict("sample_only" :> Bool(TRUE)))
         ELSE IF Search(text, summarize_pattern)
         THEN Dict("intent" :> Str("summarize") @@ "confidence" :> Float("0.93")
                   @@ "agents" :> StrList(<<"Planner", "Summarizer">>)
                   @@ "hints" :> Dict("use_existing_df" :> Bool(TRUE)))
         ELSE IF Search(text, sql_pattern)
         THEN Dict("intent" :> Str("sql") @@ "confidence" :> Float("0.9")
                   @@ "agents" :> StrList(<<"Planner", "SQLGenerator", "Validator",
                                            "SQLRunner", "Summarizer">>)
                   @@ "hints" :> Dict("sample_only" :> Bool(TRUE)))
         ELSE Dict("intent" :> Str("unknown") @@ "confidence" :> Float("0.5")
                   @@ "agents" :> EmptyList @@ "hints" :> EmptyDict) :
         text \in {Lower(prompt)}})

-----------------------------------------------------------------------------
(* The callers of detect_intent: a prompt of up to MaxWords words *)

PromptWords ==
    {"analyze", "analysis", "regression", "correlate", "drivers", "model", "predict",
     "summary", "Summarize", "summarized", "sum", "top", "assumption", "sales"}

NWords(cs) == IF cs = <<>> THEN 0 ELSE 1 + Cardinality({i \in 1..Len(cs) : cs[i] = " "})

RouterInit ==
    /\ rt_prompt = <<>>
    /\ rt_mode \in {None, Str("sql")}
    /\ rt_ret = None
    /\ RunIdle /\ RedactIdle /\ PlannerIdle /\ MappingIdle /\ AgentIdle

\* the caller writes one more word of the prompt
AppendWord ==
    /\ rt_ret = None
    /\ NWords(rt_prompt) < MaxWords
    /\ \E w \in PromptWords :
          rt_prompt' = IF rt_prompt = <<>> THEN Chars(w) ELSE rt_prompt \o <<" ">> \o Chars(w)
    /\ UNCHANGED <<rt_mode, rt_ret, runVars, redactVars, plannerVars, mappingVars, agentVars>>

DetectIntent ==
    /\ rt_ret = None
    /\ rt_ret' = detect_intent(rt_prompt, rt_mode)
    /\ UNCHANGED <<rt_prompt, rt_mode, runVars, redactVars, plannerVars, mappingVars, agentVars>>

RouterNext == AppendWord \/ DetectIntent

SpecRouter == RouterInit /\ [][RouterNext]_vars

-----------------------------------------------------------------------------
(* The callers of build_run_payload and build_runtime_graph: a Decision written step by
   step, then mapped to a run payload and materialized up to twice *)

\* Steps as tests/test_langgraph_mapping.py writes them: bare, with declared outputs (a
\* list, or one name under "provides"), with an explicit id, with an id that another
\* step's default id equals, and with an explicit depends_on that is empty, names a
\* default id, names two ids, or names an id no step has.
MappingSteps ==
    {Dict("name" :> Str("A")),
     Dict("name" :> Str("B") @@ "outputs" :> List(<<Str("x"), Str("y")>>)),
     Dict("name" :> Str("A") @@ "id" :> Str("g")),
     Dict("name" :> Str("B") @@ "id" :> Str("g") @@ "provides" :> Str("p")),
     Dict("name" :> Str("B") @@ "id" :> Str("node_1") @@ "outputs" :> List(<<Str("q")>>)),
     Dict("name" :> Str("A") @@ "depends_on" :> EmptyList),
     Dict("name" :> Str("B") @@ "depends_on" :> List(<<Str("node_0")>>)),
     Dict("name" :> Str("A") @@ "depends_on" :> List(<<Str("g"), Str("node_1")>>)),
     Dict("name" :> Str("B") @@ "depends_on" :> List(<<Str("zz")>>))}

MappingDecision == Dict("intent" :> mp_intent @@ "agents" :> List(mp_agents))

MappingInit ==
    /\ mp_agents = <<>>
    /\ mp_intent \in {Str("sql"), Str("analyze")}
    /\ mp_payload = None
    /\ mp_graph = <<>>
    /\ RunIdle /\ RedactIdle /\ PlannerIdle /\ RouterIdle /\ AgentIdle

\* the caller writes one more step of the Decision
AddStep ==
    /\ mp_payload = None
    /\ mp_graph = <<>>
    /\ Len(mp_agents) < MaxSteps
    /\ \E a \in MappingSteps : mp_agents' = Append(mp_agents, a)
    /\ UNCHANGED <<mp_intent, mp_payload, mp_graph, runVars, redactVars, plannerVars, routerVars,
                   agentVars>>

CallBuildRunPayload ==
    /\ mp_payload = None
    /\ mp_payload' = build_run_payload(MappingDecision)
    /\ UNCHANGED <<mp_agents, mp_intent, mp_graph, runVars, redactVars, plannerVars, routerVars,
                   agentVars>>

\* the graph of a call, without the callables of its runtime nodes
CallBuildRuntimeGraph ==
    /\ Len(mp_graph) < 2
    /\ mp_graph' = Append(mp_graph, build_runtime_graph(MappingDecision))
    /\ UNCHANGED <<mp_agents, mp_intent, mp_payload, runVars, redactVars, plannerVars, routerVars,
                   agentVars>>

MappingNext == AddStep \/ CallBuildRunPayload \/ CallBuildRuntimeGraph

SpecMapping == MappingInit /\ [][MappingNext]_vars

-----------------------------------------------------------------------------
(* execute on its own *)

\* SpecLocal: execute alone, on Decisions of the registered capabilities and on contexts
\* with and without a data-source handle, an LLM client (working or raising), a
\* dataframe, a registered table name and a row preview.
LocalSteps == {Step("Planner", EmptyDict), Step("SQLGenerator", EmptyDict),
               Step("SQLGenerator", Dict("max_rows" :> Num(5))), Step("SQLRunner", EmptyDict),
               Step("AnalysisAgent", EmptyDict), Step("Summarizer", EmptyDict)}

PreviewRows == List(<<Dict("a" :> Num(1) @@ "b" :> Num(10)), Dict("a" :> Num(2) @@ "b" :> Num(20))>>)

LocalContext(conn, llm, extra) ==
    Dict("conn" :> conn @@ "prompt" :> Str("test") @@ "llm" :> llm @@ extra)

LocalContexts ==
    {LocalContext(c, l, <<>>) : c \in {None, Obj("conn_t1"), Obj("conn_empty")},
                                l \in {None, Obj("llm_ok"), Obj("llm_raise")}}
    \cup {LocalContext(None, l, "full_df" :> Obj("ctx_df")) :
             l \in {None, Obj("llm_ok"), Obj("llm_raise")}}
    \cup {LocalContext(c, None, "full_df" :> Obj("ctx_df")
                                @@ "full_df_table_name" :> Str("full_df")) :
             c \in {None, Obj("conn_t1")}}
    \cup {LocalContext(None, l, "rows_preview" :> PreviewRows) : l \in {None, Obj("llm_ok")}}

LocalDecisions ==
    {Dict("intent" :> Str("test_run") @@ "agents" :> List(q)) : q \in SeqsUpTo(LocalSteps, MaxSteps)}
    \cup {_default_plan(Str("summarize"), c) : c \in LocalContexts}

InitLocal ==
    /\ RunInit(LocalDecisions, LocalContexts, {DefaultEnv}, {"orchestrator"})
    /\ RedactIdle /\ PlannerIdle /\ RouterIdle /\ MappingIdle /\ AgentIdle

NextLocal == ExecStart \/ ExecNode \/ ExecReturn

SpecLocal == InitLocal /\ [][NextLocal]_vars

-----------------------------------------------------------------------------
(* agent.py: Agent.run, from the prompt to the returned result.  The Decision *)
(* is run by the actions of execute and run_decision_graph above.             *)

\* langgraph_adapter.py lines 19-36: the flag is set when either package imports
HAS_LANGGRAPH(e) == e.runtime # "absent" \/ e.sdk # "absent"

\* the confidences of the router, in hundredths
Hundredths == "0.95" :> 95 @@ "0.92" :> 92 @@ "0.93" :> 93 @@ "0.9" :> 90 @@ "0.5" :> 50

\* line 60: decision.get("confidence", 0) < 0.7
ConfidenceBelowThreshold(decision) ==
    LET c == Get(decision.v, "confidence", Num(0)) IN
    IF c.t = "float" THEN Hundredths[c.v] < 70 ELSE c.v * 100 < 70

\* planner.py lines 110-159: plan_for_intent as one call, reply being the outcome of
\* llm.generate when the LLM is consulted
plan_for_intent(llm, intent, context, reply) ==
    IF HasData(context) \/ ~Truthy(llm)
    THEN _default_plan(intent, context)
    ELSE PlanFromReply(reply, intent, context)

\* what the planner's LLM may answer: it raises, it gives a valid plan, it gives prose
AgentReplies ==
    {[raised |-> TRUE, text |-> <<>>, body |-> "", wrap |-> ""]}
    \cup {[raised |-> FALSE, text |-> Completion(b, "plain"), body |-> b, wrap |-> "plain"] :
             b \in {"{\"agents\": [{\"name\": \"Summarizer\"}]}", "I think we should do X and Y"}}

\* conn.register(name, data) on a handle: the handle then holds the table as well
ConnRegister(conn) ==
    IF conn.v = "conn_t1" THEN Obj("conn_t1_reg")
    ELSE IF conn.v = "conn_empty" THEN Obj("conn_empty_reg")
    ELSE conn

\* lines 35-54: the context of the run; registering the data may raise, which is ignored
AgentBuildContext ==
    /\ ag_pc = "start"
    /\ \E registers \in BOOLEAN :
       LET base == IF Truthy(ctx) THEN ctx.v ELSE <<>>
           common == Put(Put(Put(base, "conn", agent.conn), "prompt", Str(ag_prompt)),
                         "llm", agent.llm)
           with_data == Put(common, "full_df", ag_data)
       IN  IF ag_data = None
           THEN ctx' = Dict(common) /\ agent' = agent
           ELSE IF agent.conn # None /\ registers
           THEN /\ agent' = [agent EXCEPT !.conn = ConnRegister(agent.conn)]
                /\ ctx' = Dict(Put(Put(with_data, "conn", ConnRegister(agent.conn)),
                                   "full_df_table_name", agent.table_name))
           ELSE ctx' = Dict(with_data) /\ agent' = agent
    /\ ag_pc' = "route"
    /\ UNCHANGED <<dec, env, path, pc, idx, run_state, run_results, traces, local_results,
                   stopped, rt_err, failed, calls, ret, submitted, redactVars, plannerVars,
                   routerVars, mappingVars, ag_prompt, ag_mode, ag_data, ag_decision, ag_via,
                   ag_ret>>

\* line 57
AgentRoute ==
    /\ ag_pc = "route"
    /\ ag_decision' = detect_intent(Chars(ag_prompt), ag_mode)
    /\ ag_pc' = "plan"
    /\ UNCHANGED <<runVars, redactVars, plannerVars, routerVars, mappingVars, agent,
                   ag_prompt, ag_mode, ag_data, ag_via, ag_ret>>

\* lines 60-66: the planner decides when the router is unsure or names no agents
AgentPlan ==
    /\ ag_pc = "plan"
    /\ \E reply \in AgentReplies, again \in AgentReplies :
       LET intent(d) == Get(d.v, "intent", Str("unknown"))
           planned ==
               IF ConfidenceBelowThreshold(ag_decision)
                  \/ ~Truthy(Get(ag_decision.v, "agents", None))
               THEN plan_for_intent(agent.llm, intent(ag_decision), ctx, reply)
               ELSE ag_decision
       IN  ag_decision' = IF "agents" \notin DOMAIN planned.v
                          THEN plan_for_intent(agent.llm, intent(planned), ctx, again)
                          ELSE planned
    /\ ag_pc' = "dispatch"
    /\ UNCHANGED <<runVars, redactVars, plannerVars, routerVars, mappingVars, agent,
                   ag_prompt, ag_mode, ag_data, ag_via, ag_ret>>

\* lines 69-73
UseLangGraph ==
    IF agent.use_langgraph = Bool(TRUE) THEN TRUE
    ELSE IF agent.use_langgraph = Str("auto") THEN HAS_LANGGRAPH(env)
    ELSE FALSE

\* lines 75-82: the Decision goes to run_decision_graph or to execute
AgentDispatch ==
    /\ ag_pc = "dispatch"
    /\ dec' = ag_decision
    /\ IF UseLangGraph
       THEN path' = "adapter" /\ pc' = "graph_start" /\ ag_via' = "adapter"
       ELSE path' = "orchestrator" /\ pc' = "exec_start" /\ ag_via' = "local"
    /\ ag_pc' = "running"
    /\ UNCHANGED <<ctx, env, idx, run_state, run_results, traces, local_results, stopped,
                   rt_err, failed, calls, ret, submitted, redactVars, plannerVars,
                   routerVars, mappingVars, agent, ag_prompt, ag_mode, ag_data, ag_decision,
                   ag_ret>>

\* AgentFallback with the adapter's exception leaving Agent.run
AgentFallbackPropagates ==
    /\ ag_pc = "running" /\ ag_via = "adapter" /\ pc = "raised"
    /\ ag_pc' = "raised"
    /\ ag_ret' = ret
    /\ UNCHANGED <<runVars, redactVars, plannerVars, routerVars, mappingVars, agent,
                   ag_prompt, ag_mode, ag_data, ag_decision, ag_via>>

\* lines 78-80: run_decision_graph raised; the same Decision and context go to execute
AgentFallback ==
    /\ ag_pc = "running" /\ ag_via = "adapter" /\ pc = "raised"
    /\ path' = "orchestrator"
    /\ pc' = "exec_start"
    /\ idx' = 1
    /\ run_state' = <<>>
    /\ run_results' = <<>>
    /\ ret' = None
    /\ ag_via' = "fallback"
    /\ UNCHANGED <<dec, ctx, env, traces, local_results, stopped, rt_err, failed, calls,
                   submitted, redactVars, plannerVars, routerVars, mappingVars, agent,
                   ag_prompt, ag_mode, ag_data, ag_pc, ag_decision, ag_ret>>

\* lines 80 and 82: an exception of execute is not caught; it leaves Agent.run
AgentRaise ==
    /\ ag_pc = "running" /\ ag_via \in {"local", "fallback"} /\ pc = "raised"
    /\ ag_pc' = "raised"
    /\ ag_ret' = ret
    /\ UNCHANGED <<runVars, redactVars, plannerVars, routerVars, mappingVars, agent,
                   ag_prompt, ag_mode, ag_data, ag_decision, ag_via>>

\* lines 85-90
AgentReturn ==
    /\ ag_pc = "running" /\ pc = "done"
    /\ ag_ret' = Dict("decision" :> dec
                      @@ "execution" :> ret
                      @@ "metadata" :> Dict("router_confidence"
                                               :> Get(dec.v, "confidence", None)))
    /\ ag_pc' = "done"
    /\ UNCHANGED <<runVars, redactVars, plannerVars, routerVars, mappingVars, agent,
                   ag_prompt, ag_mode, ag_data, ag_decision, ag_via>>

\* The callers of Agent.run: the prompts of the tests and of the spec's scenario, with
\* and without a mode, a data argument and a context of their own.
AgentPrompts == {"Give me a summary of the dataframe", "Summarize the provided dataset",
                 "analyze the drivers", "how many rows", "hello"}

AgentContexts == {None, Dict("full_df" :> Obj("empty_df")),
                  Dict("rows_preview" :> PreviewRows)}

\* no remote package; the SDK client alone; the runtime alone
AgentEnvs == {DefaultEnv, [DefaultEnv EXCEPT !.sdk = "ok"],
              [DefaultEnv EXCEPT !.runtime = "graph"]}

InitAgent ==
    /\ RunInit({None}, AgentContexts, AgentEnvs, {"agent"})
    /\ agent \in [conn : {None, Obj("conn_t1"), Obj("conn_empty")},
                  llm : {None, Obj("llm_ok")},
                  use_langgraph : {Bool(TRUE), Bool(FALSE), Str("auto")},
                  table_name : {Str("full_df")}]
    /\ ag_prompt \in AgentPrompts
    /\ ag_mode \in {None, Str("sql")}
    /\ ag_data \in {None, Obj("ctx_df")}
    /\ ag_pc = "start" /\ ag_decision = None /\ ag_via = "none" /\ ag_ret = None
    /\ RedactIdle /\ PlannerIdle /\ RouterIdle /\ MappingIdle

NextAgent ==
    \/ AgentBuildContext \/ AgentRoute \/ AgentPlan \/ AgentDispatch
    \/ GraphStart \/ RuntimeNode \/ RuntimeRaise \/ RuntimeReturn \/ LocalNode \/ GraphFinish
    \/ AgentFallback
    \/ ExecStart \/ ExecNode \/ ExecReturn
    \/ AgentRaise \/ AgentReturn

SpecAgent == InitAgent /\ [][NextAgent]_vars

-----------------------------------------------------------------------------
(* Claims *)

ExecuteRun == path = "orchestrator"
AdapterRun == path = "adapter"

StepName(k) == NodeName(Agents(dec)[k])

C2_Slot == [sql |-> "last_sql", rows_preview |-> "rows_preview", full_df |-> "full_df",
            plan |-> "plan_text"]

\* the calls before call k whose output holds `key`
C2_Producers(k, key) ==
    {j \in 1..(k - 1) : calls[j].known /\ ~calls[j].raised /\ calls[j].out.t = "dict"
                        /\ key \in DOMAIN calls[j].out.v}

C2_Latest(S) == CHOOSE j \in S : \A m \in S : m <= j

\* C2: in execute, after a step returned an output mapping, each slot named by a key
\* of the output (sql -> last_sql, rows_preview, full_df, plan -> plan_text) holds the
\* output's value and every other slot, and conn, prompt and llm always, is as before;
\* so every step sees in each slot the value of the latest earlier step whose output
\* held that key, or the value seeded from the context when there is none.
C2_MutationRule ==
    ExecuteRun =>
        \A k \in 1..Len(calls) :
            LET c == calls[k] IN
            /\ \A s \in {"conn", "prompt", "llm"} :
                  /\ c.seen[s] = Get(ctx.v, s, None)
                  /\ c.after[s] = c.seen[s]
            /\ (c.known /\ ~c.raised /\ c.out.t = "dict") =>
                  /\ \A key \in DOMAIN C2_Slot :
                        IF key \in DOMAIN c.out.v
                        THEN /\ C2_Slot[key] \in DOMAIN c.after
                             /\ c.after[C2_Slot[key]] = c.out.v[key]
                        ELSE /\ (C2_Slot[key] \in DOMAIN c.after) = (C2_Slot[key] \in DOMAIN c.seen)
                             /\ C2_Slot[key] \in DOMAIN c.seen =>
                                    c.after[C2_Slot[key]] = c.seen[C2_Slot[key]]
                  /\ DOMAIN c.after \subseteq {"conn", "prompt", "llm", "last_sql",
                                               "rows_preview", "full_df", "plan_text"}
            /\ \A key \in DOMAIN C2_Slot :
                  IF C2_Producers(k, key) # {}
                  THEN /\ C2_Slot[key] \in DOMAIN c.seen
                       /\ c.seen[C2_Slot[key]] = calls[C2_Latest(C2_Producers(k, key))].out.v[key]
                  ELSE IF key = "full_df"
                  THEN c.seen["full_df"] = Get(ctx.v, "full_df", None)
                  ELSE C2_Slot[key] \notin DOMAIN c.seen

\* SQLGenerator, then SQLRunner replacing the caller's dataframe, then a third step
\* that sees the SQL of step 1 and the dataframe of step 2
C2_Witness ==
    /\ ExecuteRun
    /\ Len(calls) = 3
    /\ "full_df" \in DOMAIN ctx.v
    /\ "sql" \in DOMAIN calls[1].out.v
    /\ "full_df" \in DOMAIN calls[2].out.v
    /\ calls[2].out.v["full_df"] # ctx.v["full_df"]
    /\ calls[3].seen["full_df"] = calls[2].out.v["full_df"]
    /\ calls[3].seen["last_sql"] = calls[1].out.v["sql"]

\* C3: in execute and in run_decision_graph's local path, the k-th call is the call of
\* the k-th step of the Decision: steps run in declared order, none twice, none before
\* an earlier one (each call is complete when the next one starts).
C3_DeclaredOrder ==
    /\ Len(calls) <= NSteps
    /\ \A k \in 1..Len(calls) :
          /\ calls[k].step = k
          /\ calls[k].agent = Agents(dec)[k]
          /\ calls[k].via = IF ExecuteRun THEN "execute" ELSE "local"

C3_Witness ==
    /\ AdapterRun
    /\ pc = "done"
    /\ Len(calls) = 3
    /\ Agents(dec)[1] # Agents(dec)[2]
    /\ Agents(dec)[2] # Agents(dec)[3]
    /\ Agents(dec)[1] # Agents(dec)[3]

\* the per-step errors of an output of a node's callable: the entries of its results
\* map that hold an error (an unregistered name, a failed query)
StepErrors(out) ==
    IF out.t = "dict" /\ "results" \in DOMAIN out.v /\ out.v["results"].t = "dict"
    THEN {n \in DOMAIN out.v["results"].v :
             /\ out.v["results"].v[n].t = "dict"
             /\ "error" \in DOMAIN out.v["results"].v[n].v}
    ELSE {}

\* C4: on a step that fails with a step-execution failure followed by further steps,
\* execute records the per-step error and runs the later steps, whereas the local
\* path of run_decision_graph records the error and runs no step after the failing
\* one: there, a call that raised or whose output holds a per-step error is the last.
C4_AdapterStopsAtStepFailure ==
    /\ (ExecuteRun /\ pc = "done") => Len(calls) = NSteps
    /\ AdapterRun =>
          \A k \in 1..Len(calls) :
              (calls[k].raised \/ StepErrors(calls[k].out) # {}) => Len(calls) = k

\* C5: in the local path of run_decision_graph, when the callable of node k raises,
\* trace k has status error, the results hold {status: error, output: {error: message}}
\* under the node's id, call k is the last call, there is no trace and no result for a
\* later node, and run_decision_graph returns (it never raises, and its return is the
\* only step left).
C5_LocalPathStopsAtRaise ==
    AdapterRun =>
        \A k \in 1..Len(calls) :
            calls[k].raised =>
                /\ Len(traces) = k
                /\ traces[k].v["id"] = Str(RuntimeNodes[k].id)
                /\ traces[k].v["status"] = Str("error")
                /\ RuntimeNodes[k].id \in DOMAIN local_results
                /\ local_results[RuntimeNodes[k].id].v["status"] = Str("error")
                /\ DOMAIN local_results[RuntimeNodes[k].id].v["output"].v = {"error"}
                /\ local_results[RuntimeNodes[k].id].v["output"].v["error"].t = "str"
                /\ DOMAIN local_results[RuntimeNodes[k].id].v = {"status", "output"}
                /\ Len(calls) = k
                /\ \A j \in (k + 1)..NSteps : RuntimeNodes[j].id \notin DOMAIN local_results
                /\ pc \in {"graph_local", "done"}
                /\ pc = "graph_local" => (ENABLED GraphFinish /\ ~ENABLED LocalNode)
                /\ pc = "done" =>
                      ret = Dict("execution" :> Dict("status" :> Str("completed")
                                                     @@ "results" :> Dict(local_results))
                                 @@ "node_traces" :> List(traces))

\* the first node raises with two nodes after it, and run_decision_graph has returned
C5_Witness ==
    /\ AdapterRun
    /\ pc = "done"
    /\ NSteps = 3
    /\ Len(calls) = 1
    /\ calls[1].raised
    /\ Len(ret.v["node_traces"].v) = 1
    /\ DOMAIN ret.v["execution"].v["results"].v = {RuntimeNodes[1].id}

\* what execute records for each step of the decision, in order
RECURSIVE ExecOuts(_, _, _, _)
ExecOuts(decision, k, state, results) ==
    IF k > Len(Agents(decision)) THEN <<>>
    ELSE The({<<it>> \o (IF it.raised THEN <<>>
                         ELSE ExecOuts(decision, k + 1, it.state, it.results)) :
              it \in {ExecIteration(Agents(decision)[k], state, results)}})

\* a step fails: unregistered, raising, or giving an error entry
StepFails(it) ==
    ~it.known \/ it.raised \/ (it.out.t = "dict" /\ "error" \in DOMAIN it.out.v)

\* C6: for a Decision of registered steps none of which fails, the output that
\* run_decision_graph's local path records for step i is the output that execute
\* records for step i on the same context.
C6_SameStepOutputs ==
    (AdapterRun /\ pc = "done") =>
        LET outs == ExecOuts(dec, 1, SeedState(ctx), <<>>) IN
        (\A i \in 1..Len(outs) : ~StepFails(outs[i])) =>
            /\ Len(calls) = Len(outs)
            /\ \A i \in 1..Len(outs) :
                  LET recorded == local_results[RuntimeNodes[i].id].v["output"] IN
                  /\ StepName(i).v \in DOMAIN recorded.v["results"].v
                  /\ recorded.v["results"].v[StepName(i).v] = outs[i].out

\* x holds the string s at some depth
RECURSIVE Holds(_, _)
Holds(x, s) ==
    IF x.t = "dict" THEN \E k \in DOMAIN x.v : Holds(x.v[k], s)
    ELSE IF x.t = "list" THEN \E j \in 1..Len(x.v) : Holds(x.v[j], s)
    ELSE x = Str(s)

\* the secret values of SecretParams: the password and the sk- token
ParamSecrets == {"hunter2", "sk-TESTSECRET"}

\* C7: no trace of the node_traces returned by run_decision_graph holds, in any field,
\* the original value of a secret-keyed entry or of a secret-shaped string of the
\* Decision's step params.
C7_ReturnedTracesHoldNoSecret ==
    (AdapterRun /\ pc = "done" /\ "node_traces" \in DOMAIN ret.v) =>
        \A s \in ParamSecrets : ~Holds(ret.v["node_traces"], s)

\* C8: no payload that send_to_langsmith hands to the tracing client holds, in any
\* part (name, project, steps, graph), the original value of a secret-keyed entry of
\* the graph's node params or traces.
C8_SubmittedPayloadHoldsNoSecret ==
    \A p \in 1..Len(submitted) : ~Holds(submitted[p], "hunter2")

\* the keys of RedactKeys whose lowercased name contains key, secret, token, password
\* or api, and the leaves of RedactLeaves that contain sk- and 8 token characters
C9_SecretKeys == {"api_key", "API_KEY", "password", "Token", "monkey"}
C9_SecretLeaves == {Str("sk-FOO12345"), Str("see sk-ABCDEFGH1 here")}

RECURSIVE C9_RedactedFrom(_, _)
C9_RedactedFrom(out, in) ==
    IF in.t = "dict"
    THEN /\ out.t = "dict"
         /\ DOMAIN out.v = DOMAIN in.v
         /\ \A k \in DOMAIN in.v :
               IF k \in C9_SecretKeys THEN out.v[k] = Str("<REDACTED>")
               ELSE C9_RedactedFrom(out.v[k], in.v[k])
    ELSE IF in.t = "list"
    THEN /\ out.t = "list"
         /\ Len(out.v) = Len(in.v)
         /\ \A j \in 1..Len(in.v) : C9_RedactedFrom(out.v[j], in.v[j])
    ELSE IF in \in C9_SecretLeaves THEN out = Str("<REDACTED>")
    ELSE out = in

\* C9: _redact of a nesting of mappings and lists gives the same nesting, with the
\* marker "<REDACTED>" as the value of every entry whose lowercased key contains key,
\* secret, token, password or api (whatever the value) and in place of every string
\* leaf containing sk- followed by at least 8 token characters, and with every other
\* value, key and list position as it was.
C9_RedactContract == rdone => C9_RedactedFrom(rout, robj)

\* a mapping with a secret key beside a list that holds a secret-shaped string and a
\* plain one
C9_Witness ==
    /\ rdone
    /\ robj = Dict("nested" :> List(<<Str("sk-FOO12345"), Str("hunter2")>>)
                   @@ "api_key" :> Str("sk-FOO12345"))
    /\ rout = Dict("nested" :> List(<<Str("<REDACTED>"), Str("hunter2")>>)
                   @@ "api_key" :> Str("<REDACTED>"))

\* C10: run_decision_graph never raises on a remote failure: after the SDK client's
\* run creation raised, the runtime-graph path runs when the runtime is available;
\* after the runtime-graph path raised (a node's error re-raised into the runtime
\* included, which leaves the runtime nothing else to do), the local path runs; and
\* run_decision_graph is always at its start, in the runtime path (which can always
\* fail over), in the local loop (within the nodes or at its end) or returned.
C10_RemoteFailuresDowngraded ==
    /\ pc # "raised"
    /\ ("sdk" \in failed /\ env.runtime = "graph" /\ "runtime" \notin failed) =>
          \/ pc = "graph_runtime"
          \/ pc = "done" /\ "langgraph_result" \in DOMAIN ret.v
    /\ ("sdk" \in failed /\ env.runtime # "graph") => pc \in {"graph_local", "done"}
    /\ "runtime" \in failed =>
          /\ pc \in {"graph_local", "done"}
          /\ pc = "done" => "execution" \in DOMAIN ret.v
    /\ rt_err => (pc = "graph_runtime" /\ ENABLED RuntimeRaise /\ ~ENABLED RuntimeNode
                  /\ ~ENABLED RuntimeReturn)
    /\ pc \in {"graph_start", "graph_runtime", "graph_local", "done"}
    /\ pc = "graph_runtime" => ENABLED RuntimeRaise
    /\ pc = "graph_local" => (stopped \/ idx <= NSteps + 1)
    /\ pc = "done" =>
          /\ ret.t = "dict"
          /\ "execution" \in DOMAIN ret.v \/ "langgraph_result" \in DOMAIN ret.v

\* the SDK client raised, then a node's error was re-raised into the runtime, then
\* the local path ran and run_decision_graph returned its result
C10_Witness ==
    /\ pc = "done"
    /\ failed = {"sdk", "runtime"}
    /\ \E k \in 1..Len(calls) : calls[k].via = "runtime" /\ calls[k].raised
    /\ \E k \in 1..Len(calls) : calls[k].via = "local"
    /\ "execution" \in DOMAIN ret.v

\* the names of the steps of a Decision, in order
StepNames(decision) ==
    [i \in 1..Len(decision.v["agents"].v) |-> decision.v["agents"].v[i].v["name"].v]

\* the default chain of an intent
C14_Chain(intent) ==
    IF intent = Str("analyze")
    THEN <<"Planner", "SQLGenerator", "Validator", "SQLRunner", "AnalysisAgent", "Summarizer">>
    ELSE IF intent = Str("sql")
    THEN <<"Planner", "SQLGenerator", "Validator", "SQLRunner", "Summarizer">>
    ELSE <<"Planner", "Summarizer">>

\* the context carries a dataframe or a non-empty row-preview list
DataInContext ==
    \/ "full_df" \in DOMAIN pl_ctx.v /\ pl_ctx.v["full_df"].t = "obj"
    \/ /\ "rows_preview" \in DOMAIN pl_ctx.v
       /\ pl_ctx.v["rows_preview"].t = "list"
       /\ Len(pl_ctx.v["rows_preview"].v) >= 1

\* completions that are no JSON, lack an agents list, name a step outside the
\* allow-list, or give a step params that are no mapping
C11_InvalidBodies ==
    {"I think we should do X and Y",
     "{\"intent\": \"sql\"}",
     "{\"agents\": \"Summarizer\"}",
     "{\"agents\": [{\"name\": \"Hacker\", \"params\": {}}]}",
     "{\"agents\": [{\"name\": \"Summarizer\", \"params\": [1]}]}",
     "{\"agents\": [{\"name\": \"Summarizer\", \"params\": []}]}"}

\* C11: with an LLM configured and no data in the context, when llm.generate raises or
\* its completion is no JSON, lacks an agents list, names a step outside the
\* allow-list or gives a step params that are no mapping, plan_for_intent returns the
\* default plan of the requested intent: that intent and its default chain.
C11_FallsBackToDefaultPlan ==
    (pl_pc = "done" /\ pl_reply # None
     /\ (pl_reply.raised \/ pl_reply.body \in C11_InvalidBodies)) =>
        /\ pl_ret.v["intent"] = pl_intent
        /\ StepNames(pl_ret) = C14_Chain(pl_intent)
        /\ pl_ret.v["reason"] = Str("planner default mapping")

\* C12: every Decision plan_for_intent returns has agents as a sequence of mappings,
\* each with a name of the allow-list and a mapping as params, and has its intent set:
\* the LLM's intent when the plan is the LLM's and it gave one, the caller's otherwise.
C12_ReturnedDecisionValid ==
    pl_pc = "done" =>
        /\ pl_ret.t = "dict"
        /\ "agents" \in DOMAIN pl_ret.v
        /\ pl_ret.v["agents"].t = "list"
        /\ \A i \in 1..Len(pl_ret.v["agents"].v) :
              LET a == pl_ret.v["agents"].v[i] IN
              /\ a.t = "dict"
              /\ {"name", "params"} \subseteq DOMAIN a.v
              /\ a.v["name"] \in {Str("Planner"), Str("SQLGenerator"), Str("Validator"),
                                  Str("SQLRunner"), Str("AnalysisAgent"), Str("Summarizer")}
              /\ a.v["params"].t = "dict"
        /\ "intent" \in DOMAIN pl_ret.v
        /\ LET from_llm == "reason" \notin DOMAIN pl_ret.v
               given == IF from_llm /\ "intent" \in DOMAIN JsonDocuments[pl_reply.body].v
                        THEN JsonDocuments[pl_reply.body].v["intent"] ELSE Str("")
           IN  pl_ret.v["intent"] = IF given # Str("") THEN given ELSE pl_intent

\* the LLM's two-step plan with its own intent, returned to a caller that asked for sql
C12_Witness ==
    /\ pl_pc = "done"
    /\ pl_intent = Str("sql")
    /\ pl_calls = 1
    /\ pl_reply.wrap = "fenced"
    /\ pl_ret.v["intent"] = Str("analyze")
    /\ StepNames(pl_ret) = <<"SQLGenerator", "Summarizer">>
    /\ pl_ret.v["agents"].v[1].v["params"] = Dict("max_rows" :> Num(50))

\* C13: when the context carries a dataframe or a non-empty row-preview list,
\* plan_for_intent returns, for every intent and with or without an LLM, a Decision of
\* exactly one Summarizer step with hints.use_existing_df true and the reason "context
\* contains data; prefer summarizer", and llm.generate is never called.
C13_ShortCircuitOnData ==
    DataInContext =>
        /\ pl_calls = 0
        /\ pl_reply = None
        /\ pl_pc \in {"start", "done"}
        /\ pl_pc = "done" =>
              /\ pl_ret.v["agents"] = List(<<Dict("name" :> Str("Summarizer")
                                                  @@ "params" :> EmptyDict)>>)
              /\ pl_ret.v["hints"].v["use_existing_df"] = Bool(TRUE)
              /\ pl_ret.v["reason"] = Str("context contains data; prefer summarizer")
              /\ pl_ret.v["intent"] = pl_intent

\* an analyze request with an LLM configured and only a row preview in the context
C13_Witness ==
    /\ pl_pc = "done"
    /\ pl_llm # None
    /\ pl_intent = Str("analyze")
    /\ "full_df" \notin DOMAIN pl_ctx.v
    /\ Len(pl_ctx.v["rows_preview"].v) = 1
    /\ StepNames(pl_ret) = <<"Summarizer">>

\* C14: with no LLM configured and no data in the context, the plan depends on the
\* intent only: analyze gives the 6-step chain, sql the 5-step chain, summarize and
\* every other intent the chain Planner, Summarizer; the intent returned is the one
\* requested.
C14_DefaultPlanByIntent ==
    (pl_pc = "done" /\ pl_llm = None /\ ~DataInContext) =>
        /\ StepNames(pl_ret) = C14_Chain(pl_intent)
        /\ Len(StepNames(pl_ret)) = (IF pl_intent = Str("analyze") THEN 6
                                     ELSE IF pl_intent = Str("sql") THEN 5 ELSE 2)
        /\ pl_ret.v["intent"] = pl_intent
        /\ pl_calls = 0

\* a sql request, the context holding full_df None and an empty row preview
C14_Witness ==
    /\ pl_pc = "done"
    /\ pl_llm = None
    /\ pl_intent = Str("sql")
    /\ DOMAIN pl_ctx.v = {"full_df", "rows_preview"}
    /\ pl_ctx.v["full_df"] = None
    /\ pl_ctx.v["rows_preview"] = EmptyList
    /\ StepNames(pl_ret) = <<"Planner", "SQLGenerator", "Validator", "SQLRunner", "Summarizer">>

-----------------------------------------------------------------------------
(* Claims about the Router *)

RECURSIVE WordsOf(_)
\* the words of a text, lowercased: its maximal runs of characters other than the space
WordsOf(cs) ==
    IF cs = <<>> THEN {}
    ELSE IF \A i \in 1..Len(cs) : cs[i] # " " THEN {Lower(cs)}
    ELSE LET k == CHOOSE i \in 1..Len(cs) : cs[i] = " " /\ \A j \in 1..(i - 1) : cs[j] # " "
         IN  (IF k = 1 THEN {} ELSE {Lower(SubSeq(cs, 1, k - 1))})
             \cup WordsOf(SubSeq(cs, k + 1, Len(cs)))

\* some keyword of the vocabulary stands in the prompt as a whole word or phrase
HasWord(vocabulary) ==
    \E text \in {<<" ">> \o Lower(rt_prompt) \o <<" ">>} :
        \E w \in vocabulary : \E i \in 1..(Len(text) - Len(w) - 1) :
            SubSeq(text, i, i + Len(w) + 1) = <<" ">> \o Chars(w) \o <<" ">>

\* the vocabularies as the specification lists them
AnalysisVocabulary ==
    {"analyze", "analysis", "regression", "correlate", "drivers", "model", "predict"}
SummarizationVocabulary == {"summary", "summarize", "describe", "overview", "insight"}
SqlVocabulary ==
    {"count", "how many", "top", "sum", "avg", "group by", "order by", "select", "min", "max"}

Routed == rt_ret # None /\ ~Truthy(rt_mode)

IsAnalyze ==
    /\ rt_ret.v["intent"] = Str("analyze")
    /\ rt_ret.v["confidence"] = Float("0.92")
    /\ rt_ret.v["agents"] = StrList(<<"Planner", "SQLGenerator", "Validator", "SQLRunner",
                                      "AnalysisAgent", "Summarizer">>)
IsSummarize ==
    /\ rt_ret.v["intent"] = Str("summarize")
    /\ rt_ret.v["confidence"] = Float("0.93")
    /\ rt_ret.v["agents"] = StrList(<<"Planner", "Summarizer">>)
IsSql ==
    /\ rt_ret.v["intent"] = Str("sql")
    /\ rt_ret.v["confidence"] = Float("0.9")
    /\ rt_ret.v["agents"] = StrList(<<"Planner", "SQLGenerator", "Validator", "SQLRunner",
                                      "Summarizer">>)
IsUnknown ==
    /\ rt_ret.v["intent"] = Str("unknown")
    /\ rt_ret.v["confidence"] = Float("0.5")
    /\ rt_ret.v["agents"] = EmptyList

\* C15: without user_mode the three vocabularies are tried in the order analysis,
\* summarization, SQL and the first that the prompt matches decides: analysis gives
\* analyze (0.92, the 6-step chain) whatever else matches, summarization without analysis
\* gives summarize (0.93, Planner and Summarizer) even with SQL words, SQL alone gives sql
\* (0.9, the 5-step chain), and a prompt matching none is unknown (0.5, no agents).
C15_FirstMatchingRuleWins ==
    Routed =>
        IF HasWord(AnalysisVocabulary) THEN IsAnalyze
        ELSE IF HasWord(SummarizationVocabulary) THEN IsSummarize
        ELSE IF HasWord(SqlVocabulary) THEN IsSql
        ELSE IsUnknown

ContainsSum == SearchNoBoundary(rt_prompt, {"sum"})

\* every word holding "sum" is longer than "sum" and is no keyword of any vocabulary
SumOnlyInsideLongerWords ==
    /\ ContainsSum
    /\ \A w \in WordsOf(rt_prompt) :
          SearchNoBoundary(w, {"sum"}) =>
              /\ Len(w) > 3
              /\ \A k \in AnalysisVocabulary \cup SummarizationVocabulary \cup SqlVocabulary :
                    w # Chars(k)

\* the statement of C16 as the specification words it
C16_AsWritten ==
    Routed =>
        /\ (HasWord(SummarizationVocabulary) /\ ContainsSum)
               => rt_ret.v["intent"] = Str("summarize")
        /\ SumOnlyInsideLongerWords
               => rt_ret.v["intent"] \notin {Str("sql"), Str("summarize")}

\* C16: keywords match on word boundaries.  A prompt with a summarization keyword as a
\* whole word (it then holds "sum" as a substring in "summary", "summarize") and with no
\* whole word of the analysis pattern is summarize, never sql; a prompt where "sum" occurs
\* only inside longer words that are no keyword, and that has no other whole-word SQL or
\* summarization keyword, is neither sql nor summarize.
C16_WordBoundaryMatching ==
    Routed =>
        /\ (HasWord(SummarizationVocabulary) /\ ContainsSum /\ ~HasWord(analyze_pattern))
               => rt_ret.v["intent"] = Str("summarize")
        /\ (/\ SumOnlyInsideLongerWords
            /\ ~HasWord(sql_pattern)
            /\ ~HasWord(summarize_pattern))
               => rt_ret.v["intent"] \notin {Str("sql"), Str("summarize")}

C16_Witness ==
    /\ Routed
    /\ rt_prompt = Chars("assumption") \o <<" ">> \o Chars("Summarize") \o <<" ">> \o Chars("sum")
    /\ rt_ret.v["intent"] = Str("summarize")

\* C17: without user_mode a prompt holding one of the words analyze, analysis, regression,
\* correlate, drivers, model, predict is classified analyze with confidence 0.92 and the
\* 6-step chain.
C17_AnalysisVocabularyIsAnalyze ==
    (Routed /\ HasWord(AnalysisVocabulary)) => IsAnalyze

-----------------------------------------------------------------------------
(* Claims about the run payload and the runtime graph *)

\* the id a step is known by: its own, or node_<index>
ExpectedId(i) ==
    IF "id" \in DOMAIN mp_agents[i].v THEN mp_agents[i].v["id"]
    ELSE Str("node_" \o IntStr(i - 1))

\* the first output a step declares, "result" when it declares none
FirstDeclared(a) ==
    IF "outputs" \in DOMAIN a.v
    THEN (IF a.v["outputs"].t = "list" THEN a.v["outputs"].v[1] ELSE a.v["outputs"])
    ELSE IF "provides" \in DOMAIN a.v
    THEN (IF a.v["provides"].t = "list" THEN a.v["provides"].v[1] ELSE a.v["provides"])
    ELSE Str("result")

PayloadItems == mp_payload.val.v["items"].v

NoStepDeclaresDependsOn == \A i \in 1..Len(mp_agents) : "depends_on" \notin DOMAIN mp_agents[i].v

LinearlyChained ==
    /\ Len(PayloadItems) = Len(mp_agents)
    /\ \A i \in 1..Len(mp_agents) :
          /\ PayloadItems[i].v["id"] = ExpectedId(i)
          /\ i = 1 => /\ PayloadItems[i].v["depends_on"] = EmptyList
                      /\ PayloadItems[i].v["inputs"] = EmptyList
          /\ i > 1 => /\ PayloadItems[i].v["depends_on"] = List(<<ExpectedId(i - 1)>>)
                      /\ PayloadItems[i].v["inputs"] =
                            List(<<Dict("from" :> ExpectedId(i - 1)
                                        @@ "output" :> FirstDeclared(mp_agents[i - 1]))>>)

\* the statement of C18 over every Decision without depends_on
C18_AsWritten ==
    (mp_payload # None /\ NoStepDeclaresDependsOn) => (~mp_payload.raised /\ LinearlyChained)

IdsPairwiseDistinct ==
    \A i, j \in 1..Len(mp_agents) : i # j => ExpectedId(i) # ExpectedId(j)

\* C18: on a Decision in which no step declares depends_on and whose step ids (given or
\* defaulted to node_<index>) are pairwise distinct, build_run_payload chains the steps
\* linearly: item 0 has empty depends_on and inputs, and every later item depends on
\* exactly the id of the item before it, with one input naming that id and the first
\* output that item declares ("result" when it declares none).
C18_LinearChaining ==
    (mp_payload # None /\ NoStepDeclaresDependsOn /\ IdsPairwiseDistinct)
        => (~mp_payload.raised /\ LinearlyChained)

C18_Witness ==
    /\ mp_payload # None
    /\ mp_agents = <<Dict("name" :> Str("A")),
                     Dict("name" :> Str("B") @@ "outputs" :> List(<<Str("x"), Str("y")>>)),
                     Dict("name" :> Str("A") @@ "id" :> Str("g"))>>
    /\ PayloadItems[3].v["inputs"] =
          List(<<Dict("from" :> Str("node_1") @@ "output" :> Str("x"))>>)

\* C19: every step that carries a depends_on list, the empty list included, keeps it
\* verbatim in its payload item, and the item's inputs hold one reference per dependency,
\* in order, naming the dependency's id and the first output declared by a step of that
\* id ("result" when that step declares none or no step has the id).
C19_ExplicitDependsOnVerbatim ==
    mp_payload # None =>
        /\ ~mp_payload.raised
        /\ \A i \in 1..Len(mp_agents) :
              "depends_on" \in DOMAIN mp_agents[i].v =>
                  LET deps == mp_agents[i].v["depends_on"]
                      inputs == PayloadItems[i].v["inputs"].v
                  IN  /\ PayloadItems[i].v["depends_on"] = deps
                      /\ Len(inputs) = Len(deps.v)
                      /\ \A d \in 1..Len(deps.v) :
                            /\ d <= Len(inputs)
                            /\ inputs[d].v["from"] = deps.v[d]
                            /\ inputs[d].v["output"] \in
                                  IF \E j \in 1..Len(mp_agents) : ExpectedId(j) = deps.v[d]
                                  THEN {FirstDeclared(mp_agents[j]) :
                                           j \in {m \in 1..Len(mp_agents) :
                                                     ExpectedId(m) = deps.v[d]}}
                                  ELSE {Str("result")}

\* C20: build_runtime_graph projects the Decision: one node per step, in step order,
\* with id node_<position>_<name> and the step's name; max(n-1, 0) edges, the i-th from
\* node i to node i+1; one runtime node per step, bound to that step; the Decision's
\* intent in the metadata; and a second call on the same Decision gives the same node
\* ids, names and edges.
C20_RuntimeGraphProjection ==
    /\ \A k \in 1..Len(mp_graph) :
          /\ ~mp_graph[k].raised
          /\ \E n \in {Len(mp_agents)} :
             \E nodes \in {mp_graph[k].val.graph_dict.v["nodes"].v} :
             \E edges \in {mp_graph[k].val.graph_dict.v["edges"].v} :
                /\ Len(nodes) = n
                /\ \A i \in 1..n :
                      /\ nodes[i].v["name"] = mp_agents[i].v["name"]
                      /\ nodes[i].v["id"] =
                            Str("node_" \o IntStr(i - 1) \o "_" \o mp_agents[i].v["name"].v)
                /\ Len(edges) = (IF n >= 1 THEN n - 1 ELSE 0)
                /\ \A i \in 1..Len(edges) :
                      edges[i] = Dict("from" :> nodes[i].v["id"] @@ "to" :> nodes[i + 1].v["id"])
                /\ Len(mp_graph[k].val.runtime_nodes) = n
                /\ \A i \in 1..n :
                      /\ mp_graph[k].val.runtime_nodes[i].agent = mp_agents[i]
                      /\ mp_graph[k].val.runtime_nodes[i].id = nodes[i].v["id"].v
                /\ mp_graph[k].val.graph_dict.v["metadata"].v["decision"].v["intent"] = mp_intent
    /\ Len(mp_graph) = 2 =>
          /\ mp_graph[1].val.graph_dict.v["nodes"] = mp_graph[2].val.graph_dict.v["nodes"]
          /\ mp_graph[1].val.graph_dict.v["edges"] = mp_graph[2].val.graph_dict.v["edges"]

C20_Witness ==
    /\ Len(mp_graph) = 2
    /\ Len(mp_agents) = 3
    /\ mp_agents[1].v["name"] = Str("B")
    /\ mp_graph[2].val.graph_dict.v["edges"].v[2] =
          Dict("from" :> Str("node_1_A") @@ "to" :> Str("node_2_B"))

-----------------------------------------------------------------------------
(* Claims about the capabilities run by execute *)

CallsOf(name) == {k \in 1..Len(calls) : NodeName(calls[k].agent) = Str(name)}

SeenDataFrame(k) == IsDataFrame(Get(calls[k].seen, "full_df", None))
SeenWorkingLlm(k) == Get(calls[k].seen, "llm", None) = Obj("llm_ok")
SeenRows(k) == Get(calls[k].seen, "rows_preview", EmptyList)

\* the deterministic text over plan, SQL and preview count
FindingsText(k) ==
    "Plan: " \o Get(calls[k].seen, "plan_text", Str("(no plan)")).v
    \o "\nSQL: " \o Get(calls[k].seen, "last_sql", Str("(no sql)")).v
    \o "\nRows preview count: " \o IntStr(Len(SeenRows(k).v))

\* C24: a Summarizer step never raises and returns a mapping with a summary string, by
\* tier: dataframe and working LLM - the LLM's summary of the dataframe; dataframe and no
\* or a raising LLM - the shape/columns/sample text; no dataframe and working LLM - the
\* LLM's summary of the findings; no dataframe, no working LLM and an empty preview - the
\* "No data available to summarize" guidance; otherwise the plan/SQL/preview-count text.
C24_SummarizerTiers ==
    \A k \in CallsOf("Summarizer") :
        /\ ~calls[k].raised
        /\ calls[k].out.t = "dict"
        /\ "summary" \in DOMAIN calls[k].out.v
        /\ calls[k].out.v["summary"] =
              IF SeenDataFrame(k) /\ SeenWorkingLlm(k)
              THEN Str("LLM summary of the DataFrame")
              ELSE IF SeenDataFrame(k)
              THEN Str(DfSummary(calls[k].seen["full_df"]))
              ELSE IF SeenWorkingLlm(k)
              THEN Str("LLM summary of the findings")
              ELSE IF SeenRows(k) = EmptyList
              THEN Str(NoDataMessage)
              ELSE Str(FindingsText(k))

C24_Witness ==
    /\ pc = "done"
    /\ \E k \in CallsOf("Summarizer") :
          /\ SeenDataFrame(k)
          /\ calls[k].seen["llm"] = Obj("llm_raise")
          /\ calls[k].out.v["summary"] =
                Str("DataFrame with 3 rows and 2 columns. Columns: ['a', 'b']. Sample rows: [{'a': 1, 'b': 10}, {'a': 2, 'b': 20}, {'a': 3, 'b': 30}]")
    /\ \E k \in CallsOf("Summarizer") :
          ~SeenDataFrame(k) /\ SeenRows(k) # EmptyList /\ ~SeenWorkingLlm(k)

SqlGeneratorLimit(k) == Get(NodeParams(calls[k].agent).v, "max_rows", Num(10)).v

\* C25: SQLGenerator run by execute without a working LLM targets, in this order of
\* preference, the table name the caller's context carries as full_df_table_name, the
\* first table discovered on the data-source handle, the placeholder sample_table; the
\* query is "SELECT * FROM <table> LIMIT <max_rows or 10>".
C25_SqlGeneratorTargetTable ==
    ExecuteRun =>
        \A k \in CallsOf("SQLGenerator") :
            ~SeenWorkingLlm(k) =>
                /\ ~calls[k].raised
                /\ calls[k].out =
                      Dict("sql" :> Str("SELECT * FROM "
                          \o (IF "full_df_table_name" \in DOMAIN ctx.v
                              THEN ctx.v["full_df_table_name"].v
                              ELSE IF ctx.v["conn"] # None /\ ConnTables(ctx.v["conn"]) # <<>>
                              THEN ConnTables(ctx.v["conn"])[1]
                              ELSE "sample_table")
                          \o " LIMIT " \o IntStr(SqlGeneratorLimit(k))))

\* C27: execute seeds the run state with conn, prompt, llm and full_df of the caller's
\* context and nothing else, so a rows_preview a step sees was written by an earlier step
\* of the run, never taken from the context.  Hence the Summarizer-only Decision the
\* Planner gives for a context with a non-empty row preview and no dataframe, run by
\* execute on that context without an LLM, ends with the "No data available to
\* summarize" guidance and an empty top-level summary.
C27_RowsPreviewNotSeeded ==
    ExecuteRun =>
        /\ (pc = "exec_loop" /\ calls = <<>>) =>
              /\ DOMAIN run_state = {"conn", "prompt", "llm", "full_df"}
              /\ \A key \in DOMAIN run_state : run_state[key] = Get(ctx.v, key, None)
        /\ \A k \in 1..Len(calls) :
              "rows_preview" \in DOMAIN calls[k].seen =>
                  \E j \in 1..(k - 1) :
                      /\ calls[j].out.t = "dict"
                      /\ "rows_preview" \in DOMAIN calls[j].out.v
        /\ (/\ pc = "done"
            /\ "rows_preview" \in DOMAIN ctx.v
            /\ "full_df" \notin DOMAIN ctx.v
            /\ ctx.v["llm"] = None
            /\ dec = _default_plan(dec.v["intent"], ctx)) =>
              /\ ret.v["results"].v["Summarizer"].v["summary"] = Str(NoDataMessage)
              /\ ret.v["summary_text"] = Str(NoDataMessage)
              /\ ret.v["summary"] = EmptyList

C27_Witness ==
    /\ pc = "done"
    /\ ctx.v["llm"] = None
    /\ "full_df" \notin DOMAIN ctx.v
    /\ "rows_preview" \in DOMAIN ctx.v
    /\ Len(ctx.v["rows_preview"].v) = 2
    /\ "hints" \in DOMAIN dec.v
    /\ dec.v["hints"] = Dict("use_existing_df" :> Bool(TRUE))
    /\ StepNames(dec) = <<"Summarizer">>
    /\ ret.v["summary_text"] = Str(NoDataMessage)
    /\ ret.v["summary"] = EmptyList

NoHandleOrNoSql(k) ==
    Get(calls[k].seen, "conn", None) = None \/ ~Truthy(Get(calls[k].seen, "last_sql", None))

\* the calls after k up to the next SQLRunner call
UntilNextRunner(k) ==
    {j \in (k + 1)..Len(calls) :
        \A m \in (k + 1)..(j - 1) : NodeName(calls[m].agent) # Str("SQLRunner")}

\* C28: SQLRunner run without a data-source handle or without SQL returns the one-row
\* placeholder preview and a null full_df, and the run state's dataframe becomes null:
\* the caller's dataframe is gone for the steps after it (a Summarizer summarizes the
\* placeholder preview, AnalysisAgent reports that no dataframe was provided).
C28_RunnerPlaceholderDropsDataframe ==
    ExecuteRun =>
        \A k \in CallsOf("SQLRunner") :
            NoHandleOrNoSql(k) =>
                /\ calls[k].out =
                      Dict("rows_preview" :> List(<<Dict("col1" :> Num(1) @@ "col2" :> Str("example"))>>)
                           @@ "full_df" :> None)
                /\ calls[k].after["full_df"] = None
                /\ \A j \in (k + 1)..Len(calls) :
                      Get(ctx.v, "full_df", None) # None
                          => calls[j].seen["full_df"] # ctx.v["full_df"]
                /\ \A j \in UntilNextRunner(k) :
                      /\ calls[j].seen["full_df"] = None
                      /\ NodeName(calls[j].agent) = Str("Summarizer") =>
                            calls[j].out.v["summary"] =
                                IF SeenWorkingLlm(j) THEN Str("LLM summary of the findings")
                                ELSE Str("Plan: " \o Get(calls[j].seen, "plan_text", Str("(no plan)")).v
                                         \o "\nSQL: " \o Get(calls[j].seen, "last_sql", Str("(no sql)")).v
                                         \o "\nRows preview count: 1")
                      /\ NodeName(calls[j].agent) = Str("AnalysisAgent") =>
                            calls[j].out.v["artifacts"] =
                                Dict("note" :> Str("no dataframe provided to AnalysisAgent"))

C28_Witness ==
    /\ pc = "done"
    /\ Get(ctx.v, "full_df", None) = Obj("ctx_df")
    /\ StepNames(dec) = <<"SQLRunner", "AnalysisAgent", "Summarizer">>
    /\ calls[1].seen["full_df"] = Obj("ctx_df")
    /\ calls[2].seen["full_df"] = None
    /\ ret.v["summary_text"] = Str("Plan: (no plan)\nSQL: (no sql)\nRows preview count: 1")

\* C29: results of execute is keyed by step name.  Every step of the Decision is run, in
\* order, each on the run state the step before it left; results holds one entry per
\* distinct step name, the output of the name's last occurrence, so it has as many
\* entries as there are distinct names.
C29_ResultsKeyedByName ==
    (ExecuteRun /\ pc = "done") =>
        /\ Len(calls) = NSteps
        /\ \A k \in 1..NSteps :
              /\ calls[k].agent = Agents(dec)[k]
              /\ k > 1 => calls[k].seen = calls[k - 1].after
              /\ (calls[k].out.t = "dict" /\ "sql" \in DOMAIN calls[k].out.v)
                    => calls[k].after["last_sql"] = calls[k].out.v["sql"]
        /\ DOMAIN ret.v["results"].v = {StepName(k).v : k \in 1..NSteps}
        /\ \A k \in 1..NSteps :
              (\A j \in (k + 1)..NSteps : StepName(j) # StepName(k))
                  => ret.v["results"].v[StepName(k).v] = calls[k].out
        /\ Cardinality(DOMAIN ret.v["results"].v) = Cardinality({StepName(k) : k \in 1..NSteps})

C29_Witness ==
    /\ ExecuteRun /\ pc = "done"
    /\ NSteps = 3
    /\ Cardinality(DOMAIN ret.v["results"].v) = 2
    /\ calls[1].out = Dict("sql" :> Str("SELECT * FROM t1 LIMIT 10"))
    /\ calls[2].out = Dict("sql" :> Str("SELECT * FROM t1 LIMIT 5"))
    /\ ret.v["results"].v["SQLGenerator"] = Dict("sql" :> Str("SELECT * FROM t1 LIMIT 5"))
    /\ "SQLRunner" \in DOMAIN ret.v["results"].v

-----------------------------------------------------------------------------
(* Claims about the adapter's traces, uploads and the Agent front end *)

\* run_decision_graph returned from its local path
LocalPathReturned ==
    AdapterRun /\ pc = "done" /\ ret.t = "dict" /\ "execution" \in DOMAIN ret.v

ReturnedTraces == ret.v["node_traces"].v
ReturnedResults == ret.v["execution"].v["results"].v

\* one trace per entry of results, in execution order, with the entry's id and status
TracesMatchResults ==
    /\ Len(ReturnedTraces) = Cardinality(DOMAIN ReturnedResults)
    /\ \A i \in 1..Len(ReturnedTraces) :
          /\ ReturnedTraces[i].v["id"] = Str(RuntimeNodes[i].id)
          /\ RuntimeNodes[i].id \in DOMAIN ReturnedResults
          /\ ReturnedResults[RuntimeNodes[i].id].v["status"] = ReturnedTraces[i].v["status"]

\* a step of the run leaves the traces alone or appends one trace
TracesOnlyAppended ==
    \/ traces' = traces
    \/ Len(traces') = Len(traces) + 1 /\ SubSeq(traces', 1, Len(traces)) = traces

\* C26: in every result run_decision_graph returns from its local path, node_traces
\* holds exactly one trace per entry of execution.results, in execution order, with the
\* same node id and status, and traces are only ever appended; also when the local
\* path is reached after a runtime attempt that failed part-way.
C26_OneTracePerResult ==
    /\ [](LocalPathReturned => TracesMatchResults)
    /\ [][TracesOnlyAppended]_vars

UploadCall == path = "upload"

\* the traces and results that the step calls of the run alone determine
TraceAgrees(tr, call) ==
    /\ tr.v["id"] = Str(NodeId(call.step, NodeName(call.agent)))
    /\ tr.v["output"] = _redact(call.out)
    /\ tr.v["status"] = Str(IF call.raised THEN "error" ELSE "success")

LocalCalls == {k \in 1..Len(calls) : calls[k].via = "local"}

ResultOfCalls ==
    /\ "node_traces" \in DOMAIN ret.v
    /\ Len(ret.v["node_traces"].v) = Len(calls)
    /\ \A k \in 1..Len(calls) : TraceAgrees(ret.v["node_traces"].v[k], calls[k])
    /\ "execution" \in DOMAIN ret.v =>
          /\ DOMAIN ReturnedResults
                = {NodeId(calls[k].step, NodeName(calls[k].agent)) : k \in LocalCalls}
          /\ \A k \in LocalCalls :
                ReturnedResults[NodeId(calls[k].step, NodeName(calls[k].agent))]
                    = Dict("status" :> Str(IF calls[k].raised THEN "error" ELSE "success")
                           @@ "output" :> calls[k].out)

\* C21: send_to_langsmith called directly raises LangGraphAdapterError when langsmith
\* is not importable, when the credential is missing and when the client call fails;
\* run_decision_graph attempts an upload only when the credential is set, never raises
\* because of it, and returns the results and traces of the steps it ran whether the
\* upload was skipped, succeeded or failed.
C21_UploadFailureOnlyFromUpload ==
    /\ (UploadCall /\ pc # "upload_start") =>
          /\ env.langsmith = "absent"
                => pc = "raised" /\ ret = Str("LangSmith SDK (langsmith) is not installed")
          /\ (env.langsmith # "absent" /\ ~env.api_key)
                => pc = "raised" /\ ret = Str("Missing LANGSMITH_API_KEY environment variable")
          /\ (env.langsmith = "raises" /\ env.api_key)
                => pc = "raised" /\ ret = Str("langsmith client.runs.create failed")
          /\ (env.langsmith = "ok" /\ env.api_key) => pc = "done"
    /\ AdapterRun =>
          /\ pc # "raised"
          /\ ~env.api_key => submitted = <<>>
          /\ pc = "done" =>
                /\ submitted # <<>> <=> (env.api_key /\ env.langsmith # "absent")
                /\ ResultOfCalls

\* an upload that failed at the end of a run that executed steps
C21_Witness ==
    /\ AdapterRun /\ pc = "done"
    /\ env.api_key /\ env.langsmith = "raises"
    /\ send_to_langsmith(UploadGraph, env).raised
    /\ submitted # <<>>
    /\ "execution" \in DOMAIN ret.v
    /\ Len(ReturnedTraces) = 2

\* Agent.run returned; what it returned as execution
AgentReturned == ag_pc = "done"
AgentExecution == ag_ret.v["execution"]

\* run_decision_graph raises on the Decision (its materialization fails)
AdapterRaises == build_runtime_graph(ag_decision).raised

\* C22: Agent.run always returns a result with decision and execution and lets no
\* exception out; execution is run_decision_graph's output exactly when use_langgraph is
\* True, or "auto" with the availability flag set, and the adapter call does not raise;
\* otherwise it is execute's output for the same Decision and context.
C22_AgentAlwaysReturns ==
    /\ ag_pc # "raised"
    /\ AgentReturned =>
          /\ {"decision", "execution"} \subseteq DOMAIN ag_ret.v
          /\ ag_ret.v["decision"] = ag_decision
          /\ (ag_via = "adapter") <=> (UseLangGraph /\ ~AdapterRaises)
          /\ ag_via = "adapter" =>
                \/ "langgraph_result" \in DOMAIN AgentExecution.v
                \/ {"execution", "node_traces"} \subseteq DOMAIN AgentExecution.v
          /\ ag_via # "adapter" =>
                /\ ~execute(ag_decision, ctx).raised
                /\ AgentExecution = execute(ag_decision, ctx).val

\* the mapping the router returns for the call's prompt and mode
RouterDecision == detect_intent(Chars(ag_prompt), ag_mode)

\* the scenario: the prompt, a populated dataframe as data, no LLM, the local orchestrator
SummaryScenario ==
    /\ ag_prompt = "Give me a summary of the dataframe"
    /\ ag_mode = None
    /\ ag_data = Obj("ctx_df")
    /\ agent.llm = None
    /\ agent.use_langgraph = Bool(FALSE)

SummaryOf(execution) == execution.v["results"].v["Summarizer"].v["summary"]

SummaryHasCounts(s) ==
    /\ s.t = "str" /\ s.v # ""
    /\ Contains(Chars(s.v), Chars("3 rows"))
    /\ Contains(Chars(s.v), Chars("2 columns"))

\* C23: in the scenario the router classifies summarize with high confidence, the
\* executed Decision has agents exactly [Summarizer] and hints.use_existing_df true, and
\* results.Summarizer.summary is a non-empty string holding the row and column counts.
C23_EndToEndSummarize ==
    (SummaryScenario /\ AgentReturned) =>
        /\ RouterDecision.v["intent"] = Str("summarize")
        /\ ~ConfidenceBelowThreshold(RouterDecision)
        /\ Len(Agents(ag_ret.v["decision"])) = 1
        /\ NodeName(Agents(ag_ret.v["decision"])[1]) = Str("Summarizer")
        /\ Get(ag_ret.v["decision"].v["hints"].v, "use_existing_df", None) = Bool(TRUE)
        /\ SummaryHasCounts(SummaryOf(AgentExecution))

\* a Decision the router made by its rules: confident, with the agents as bare names
RouterDecidedAlone ==
    /\ ~ConfidenceBelowThreshold(RouterDecision)
    /\ Truthy(Get(RouterDecision.v, "agents", None))

\* C30: run_decision_graph raises, before any step runs, on a Decision whose agents are
\* bare names, the form of the router's confident decisions; Agent.run catches it, so
\* with use_langgraph enabled the returned execution is execute's output for the
\* Decision and the context, and no node_traces are produced.
C30_BareNamesFallBackToLocal ==
    (ag_pc \in {"running", "done", "raised"} /\ RouterDecidedAlone /\ UseLangGraph) =>
        /\ \A i \in 1..Len(Agents(dec)) : Agents(dec)[i].t = "str"
        /\ AdapterRaises
        /\ ag_via \in {"adapter", "fallback"}
        /\ ag_via = "adapter" => pc \in {"graph_start", "raised"} /\ ag_pc = "running"
        /\ traces = <<>>
        /\ \A k \in 1..Len(calls) : calls[k].via = "execute"
        /\ AgentReturned =>
              /\ ag_via = "fallback"
              /\ AgentExecution = execute(dec, ctx).val
              /\ "node_traces" \notin DOMAIN AgentExecution.v
              /\ DOMAIN AgentExecution.v["results"].v
                    = {Agents(dec)[i].v : i \in 1..Len(Agents(dec))}

C30_Witness ==
    /\ AgentReturned /\ RouterDecidedAlone
    /\ agent.use_langgraph = Str("auto") /\ HAS_LANGGRAPH(env)
    /\ ag_via = "fallback"
    /\ Len(calls) = 6
    /\ "Summarizer" \in DOMAIN AgentExecution.v["results"].v

====
